---- MODULE Spec2Model ----
(***************************************************************************)
(* A model of the agent engine of xichan96/cortex (agent/engine/agent.go): *)
(* the single-flight gate, the blocking and the streaming iteration loop,  *)
(* the tool scheduler, the tool executor and its result cache.             *)
(***************************************************************************)
EXTENDS Integers, Sequences, FiniteSets, TLC

\* ------------------------------------------------------------------ bounds
\* config.MaxIterations ranges over 1..MaxIterBound
MaxIterBound == 2
\* total number of Execute / ExecuteStream invocations in one behaviour
MaxRuns == 2
\* the clock stops advancing at MaxNow (minutes)
MaxNow == 5

\* the cache size of the engine whose cache is filled (SpecCache); it stands
\* for DefaultCacheSize and, like it, is at least 4, so that len/4 >= 1
ScaledCacheSize == 4

\* ------------------------------------------------------- program constants
DefaultCacheSize == 100
\* CacheExpirationTime, in minutes
CacheExpirationTime == 5
DefaultChannelBuffer == 50
MaxTruncationLength == 500

\* the concurrent callers of one AgentEngine
Procs == {1, 2}

\* ------------------------------------------------------------ value types
\* a tool-argument map, as the set of its (key, value) pairs
ArgsAdd == {<<"a", 2>>, <<"b", 3>>}
ArgsNone == {}
ArgKeyOrder == <<"a", "b">>

ArgGet(args, k) == (CHOOSE kv \in args : kv[1] = k)[2]

\* types.ToolCall
ToolCall(id, name, args) ==
    [id |-> id, type |-> "function", name |-> name, args |-> args]

\* types.ToolCallRequest built from a call (same four fields)
ToolCallRequest(tc) ==
    [tool |-> tc.name, toolInput |-> tc.args, toolCallID |-> tc.id, type |-> tc.type]

\* types.ToolCall built back from a request
ToolCallOfRequest(r) ==
    [id |-> r.toolCallID, type |-> r.type, name |-> r.tool, args |-> r.toolInput]

\* types.ToolCallData
ToolCallData(tc, observation) ==
    [action |-> [tool |-> tc.name, toolInput |-> tc.args,
                 toolCallID |-> tc.id, type |-> tc.type],
     observation |-> observation]

\* AgentResult
AgentResult(output, toolCalls, steps) ==
    [output |-> output, toolCalls |-> toolCalls, intermediateSteps |-> steps]

EmptyResult == AgentResult("", <<>>, <<>>)

Message(role, content, toolCalls) ==
    [role |-> role, content |-> content, toolCalls |-> toolCalls]

\* ------------------------------------------------------------------ tools
\* The registered tools: add(a, b) returns a + b, bad always fails.
\* "ghost" is a name the model may request that is never registered.
ToolAdd == [name |-> "add", priority |-> 0, dependencies |-> <<>>]
ToolBad == [name |-> "bad", priority |-> 0, dependencies |-> <<>>]

\* tool.Execute(args): [err, result]; err = "" stands for a nil error
ToolExecute(tool, args) ==
    IF tool.name = "add"
    THEN [err |-> "", result |-> ArgGet(args, "a") + ArgGet(args, "b")]
    ELSE IF tool.name = "bad"
    THEN [err |-> "boom", result |-> 0]
    ELSE [err |-> "", result |-> 0]

\* fmt.Sprintf("%v", toolResult)
Sprintf(v) == ToString(v)

\* truncateString(s, maxLen)
truncateString(s, maxLen) ==
    IF Len(s) <= maxLen THEN s ELSE SubSeq(s, 1, maxLen) \o "..."

FailedObservation(err) == "Tool execution failed: " \o err

\* ---------------------------------------------------------- tool scheduler
CallNames(toolCalls) == {toolCalls[i].name : i \in 1..Len(toolCalls)}

\* toolCallMap[toolName] = tc, written in arrival order: the last call wins
toolCallMap(toolCalls) ==
    [n \in CallNames(toolCalls) |->
        toolCalls[CHOOSE i \in 1..Len(toolCalls) :
                    /\ toolCalls[i].name = n
                    /\ \A j \in (i+1)..Len(toolCalls) : toolCalls[j].name # n]]

priorityMap(toolCalls, tm) ==
    [n \in CallNames(toolCalls) |-> IF n \in DOMAIN tm THEN tm[n].priority ELSE 0]

dependencyGraph(toolCalls, tm) ==
    [n \in {m \in CallNames(toolCalls) :
                m \in DOMAIN tm /\ Len(tm[m].dependencies) > 0}
        |-> tm[n].dependencies]

RECURSIVE hasCycle(_, _, _)
RECURSIVE hasCycleDeps(_, _, _, _)
\* the DFS of detectCircularDependencies; st = [visited, recStack, cycle]
hasCycle(graph, toolName, st) ==
    LET st1 == [st EXCEPT !.visited = @ \cup {toolName},
                          !.recStack = @ \cup {toolName}]
        st2 == IF toolName \in DOMAIN graph
               THEN hasCycleDeps(graph, graph[toolName], 1, st1)
               ELSE st1
    IN  IF st2.cycle THEN st2 ELSE [st2 EXCEPT !.recStack = @ \ {toolName}]

hasCycleDeps(graph, deps, i, st) ==
    IF i > Len(deps) \/ st.cycle THEN st
    ELSE IF deps[i] \notin st.visited
         THEN hasCycleDeps(graph, deps, i + 1, hasCycle(graph, deps[i], st))
         ELSE IF deps[i] \in st.recStack
              THEN [st EXCEPT !.cycle = TRUE]
              ELSE hasCycleDeps(graph, deps, i + 1, st)

RECURSIVE detectLoop(_, _, _)
detectLoop(graph, todo, st) ==
    IF todo = {} \/ st.cycle THEN st.cycle
    ELSE LET n == CHOOSE x \in todo : TRUE
         IN  detectLoop(graph, todo \ {n},
                        IF n \notin st.visited THEN hasCycle(graph, n, st) ELSE st)

\* TRUE iff the "circular dependency detected" error is returned
detectCircularDependencies(graph) ==
    detectLoop(graph, DOMAIN graph,
               [visited |-> {}, recStack |-> {}, cycle |-> FALSE])

Swap(s, i, j) == [s EXCEPT ![i] = s[j], ![j] = s[i]]

RECURSIVE sortInner(_, _, _)
sortInner(s, i, j) ==
    IF j > Len(s) THEN s
    ELSE sortInner(IF s[i].priority < s[j].priority THEN Swap(s, i, j) ELSE s,
                   i, j + 1)

RECURSIVE sortOuter(_, _)
sortOuter(s, i) ==
    IF i > Len(s) - 1 THEN s ELSE sortOuter(sortInner(s, i, i + 1), i + 1)

\* a scheduler that leaves the arrival order as it is
sortNothing(s) == s

\* the exchange sort by priority, descending
sortByPriority(s) == sortOuter(s, 1)

\* a visit that does not descend into the dependencies
visitNoDeps(graph, tcMap, deps, i, st) == st

RECURSIVE visit(_, _, _, _)
RECURSIVE visitDeps(_, _, _, _, _)
\* st = [sorted, visited, inProgress, err]
visit(graph, tcMap, toolName, st) ==
    IF st.err THEN st
    ELSE IF toolName \in st.inProgress THEN [st EXCEPT !.err = TRUE]
    ELSE IF toolName \in st.visited THEN st
    ELSE LET st1 == [st EXCEPT !.inProgress = @ \cup {toolName}]
             st2 == IF toolName \in DOMAIN graph
                    THEN visitDeps(graph, tcMap, graph[toolName], 1, st1)
                    ELSE st1
         IN  IF st2.err THEN st2
             ELSE [st2 EXCEPT !.inProgress = @ \ {toolName},
                              !.visited = @ \cup {toolName},
                              !.sorted = IF toolName \in DOMAIN tcMap
                                         THEN Append(@, tcMap[toolName])
                                         ELSE @]

visitDeps(graph, tcMap, deps, i, st) ==
    IF i > Len(deps) \/ st.err THEN st
    ELSE visitDeps(graph, tcMap, deps, i + 1,
                   IF deps[i] \in DOMAIN tcMap
                   THEN visit(graph, tcMap, deps[i], st)
                   ELSE st)

RECURSIVE visitAll(_, _, _, _, _)
visitAll(graph, tcMap, twp, i, st) ==
    IF i > Len(twp) \/ st.err THEN st
    ELSE visitAll(graph, tcMap, twp, i + 1,
                  visit(graph, tcMap, twp[i].toolCall.name, st))

\* sortToolCallsByDependencies: [err, calls]
sortToolCallsByDependencies(toolCalls, tm) ==
    IF Len(toolCalls) <= 1 THEN [err |-> FALSE, calls |-> toolCalls]
    ELSE LET graph == dependencyGraph(toolCalls, tm)
             prio  == priorityMap(toolCalls, tm)
             tcMap == toolCallMap(toolCalls)
         IN  IF detectCircularDependencies(graph)
             THEN [err |-> TRUE, calls |-> <<>>]
             ELSE LET twp == sortByPriority(
                                [i \in 1..Len(toolCalls) |->
                                    [toolCall |-> toolCalls[i],
                                     priority |-> prio[toolCalls[i].name]]])
                      st  == visitAll(graph, tcMap, twp, 1,
                                      [sorted |-> <<>>, visited |-> {},
                                       inProgress |-> {}, err |-> FALSE])
                  IN  IF st.err THEN [err |-> TRUE, calls |-> <<>>]
                      ELSE [err |-> FALSE, calls |-> st.sorted]

\* the order the orchestrator executes: arrival order when sorting fails
SortedOrFallback(toolCalls, tm) ==
    LET r == sortToolCallsByDependencies(toolCalls, tm)
    IN  IF r.err THEN toolCalls ELSE r.calls

\* -------------------------------------------------------------- tool cache
RECURSIVE MarshalPairs(_, _)
MarshalPairs(args, i) ==
    IF i > Len(ArgKeyOrder) THEN ""
    ELSE LET k == ArgKeyOrder[i]
             rest == MarshalPairs(args, i + 1)
         IN  IF \E kv \in args : kv[1] = k
             THEN "\"" \o k \o "\":" \o ToString(ArgGet(args, k))
                  \o (IF rest = "" THEN "" ELSE "," \o rest)
             ELSE rest

\* json.Marshal of a map: keys in ascending order
MarshalJSON(args) == "{" \o MarshalPairs(args, 1) \o "}"

\* a key made of the tool name alone
generateToolCacheKeyByName(toolName, args) == toolName

\* the bytes the md5 hasher is fed: the tool name, then the JSON of a non-empty
\* argument map; the digest is taken as injective on them
generateToolCacheKey(toolName, args) ==
    IF Cardinality(args) > 0 THEN toolName \o MarshalJSON(args) ELSE toolName

CacheMiss == [cached |-> FALSE, result |-> 0, err |-> ""]

\* a lookup that does not read enable_tool_retry
getCachedIgnoringRetry(enableToolRetry, cache, t, toolName, args) ==
    LET k == generateToolCacheKey(toolName, args)
    IN  IF k \in DOMAIN cache /\ t - cache[k].timestamp < CacheExpirationTime
        THEN [cached |-> TRUE, result |-> cache[k].result, err |-> cache[k].err]
        ELSE CacheMiss

\* a lookup that still hits at the age CacheExpirationTime
getCachedAtExpiry(enableToolRetry, cache, t, toolName, args) ==
    IF ~enableToolRetry THEN CacheMiss
    ELSE LET k == generateToolCacheKey(toolName, args)
         IN  IF k \in DOMAIN cache /\ t - cache[k].timestamp <= CacheExpirationTime
             THEN [cached |-> TRUE, result |-> cache[k].result, err |-> cache[k].err]
             ELSE CacheMiss

getCachedToolResult(enableToolRetry, cache, t, toolName, args) ==
    IF ~enableToolRetry THEN CacheMiss
    ELSE LET k == generateToolCacheKey(toolName, args)
         IN  IF k \in DOMAIN cache /\ t - cache[k].timestamp < CacheExpirationTime
             THEN [cached |-> TRUE, result |-> cache[k].result, err |-> cache[k].err]
             ELSE CacheMiss

\* all orders in which a range over the map may deliver its keys
Perms(S) ==
    {f \in [1..Cardinality(S) -> S] :
        \A i, j \in 1..Cardinality(S) : i # j => f[i] # f[j]}

RECURSIVE evictScan(_, _, _, _, _, _)
\* first pass of the eviction; st = [expiredKeys, oldestKey, oldestTime, removedCount]
evictScan(cache, ord, i, maxRemovals, t, st) ==
    IF i > Len(ord) \/ st.removedCount >= maxRemovals THEN st
    ELSE LET key == ord[i]
             entry == cache[key]
         IN  IF t - entry.timestamp >= CacheExpirationTime
             THEN evictScan(cache, ord, i + 1, maxRemovals, t,
                            [st EXCEPT !.expiredKeys = @ \cup {key},
                                       !.removedCount = @ + 1])
             ELSE IF st.oldestKey = "" \/ entry.timestamp < st.oldestTime
                  THEN evictScan(cache, ord, i + 1, maxRemovals, t,
                                 [st EXCEPT !.oldestKey = key,
                                            !.oldestTime = entry.timestamp])
                  ELSE evictScan(cache, ord, i + 1, maxRemovals, t, st)

Restrict(f, S) == [k \in S |-> f[k]]

\* an eviction pass that drops expired entries only
evictExpiredOnly(cache, size, t, ord) ==
    Restrict(cache, {k \in DOMAIN cache : t - cache[k].timestamp < CacheExpirationTime})

\* an eviction pass that drops the entry stored last
evictNewest(cache, size, t, ord) ==
    Restrict(cache, {k \in DOMAIN cache :
                        \E j \in DOMAIN cache : cache[j].timestamp > cache[k].timestamp})

\* the cache after the eviction pass run in key order ord
evictWith(cache, size, t, ord) ==
    LET st == evictScan(cache, ord, 1, Cardinality(DOMAIN cache) \div 4, t,
                        [expiredKeys |-> {}, oldestKey |-> "",
                         oldestTime |-> 0, removedCount |-> 0])
        c1 == Restrict(cache, DOMAIN cache \ st.expiredKeys)
    IN  IF Cardinality(DOMAIN c1) >= size /\ st.oldestKey # ""
        THEN Restrict(c1, DOMAIN c1 \ {st.oldestKey})
        ELSE c1

\* setCachedToolResult: the set of caches it may leave (one per range order)
setCachedToolResult(enableToolRetry, cache, size, t, toolName, args, result, err) ==
    IF ~enableToolRetry THEN {cache}
    ELSE LET k == generateToolCacheKey(toolName, args)
             e == [result |-> result, err |-> err, timestamp |-> t]
             kept == IF Cardinality(DOMAIN cache) >= size
                     THEN {evictWith(cache, size, t, ord) : ord \in Perms(DOMAIN cache)}
                     ELSE {cache}
         IN  {[x \in DOMAIN c \cup {k} |-> IF x = k THEN e ELSE c[x]] : c \in kept}

\* ------------------------------------------------------- message builders
\* fmt.Sprintf("%v", map): the Go rendering map[k:v ...] with sorted keys
RECURSIVE SprintfPairs(_, _)
SprintfPairs(args, i) ==
    IF i > Len(ArgKeyOrder) THEN ""
    ELSE LET k == ArgKeyOrder[i]
             rest == SprintfPairs(args, i + 1)
         IN  IF \E kv \in args : kv[1] = k
             THEN k \o ":" \o ToString(ArgGet(args, k))
                  \o (IF rest = "" THEN "" ELSE " " \o rest)
             ELSE rest

SprintfMap(args) == "map[" \o SprintfPairs(args, 1) \o "]"

RECURSIVE buildContextLines(_, _)
buildContextLines(requests, i) ==
    IF i > Len(requests) THEN ""
    ELSE "Tool: " \o requests[i].action.tool
         \o ", Input: " \o SprintfMap(requests[i].action.toolInput)
         \o ", Result: " \o requests[i].observation \o "\n"
         \o buildContextLines(requests, i + 1)

buildContextFromPreviousRequests(requests) ==
    "Previous tool calls:\n" \o buildContextLines(requests, 1)

IsSystem(m) == m.role = "system"

\* a prepareMessages that keeps the oldest entries of a long history
prepareMessagesOldest(cfg, hist, inp, previousRequests) ==
    LET sys == IF cfg.SystemMessage # ""
               THEN <<Message("system", cfg.SystemMessage, <<>>)>>
               ELSE <<>>
        h   == IF cfg.MaxHistoryMessages > 0 /\ Len(hist) > cfg.MaxHistoryMessages
               THEN SubSeq(hist, 1, cfg.MaxHistoryMessages)
               ELSE hist
        ctx == IF Len(previousRequests) > 0
               THEN <<Message("system",
                              buildContextFromPreviousRequests(previousRequests),
                              <<>>)>>
               ELSE <<>>
    IN  sys \o h \o ctx \o <<Message("user", inp, <<>>)>>

\* prepareMessages, given the history the memory returned
prepareMessages(cfg, hist, inp, previousRequests) ==
    LET sys == IF cfg.SystemMessage # ""
               THEN <<Message("system", cfg.SystemMessage, <<>>)>>
               ELSE <<>>
        h   == IF cfg.MaxHistoryMessages > 0 /\ Len(hist) > cfg.MaxHistoryMessages
               THEN SubSeq(hist, Len(hist) - cfg.MaxHistoryMessages + 1, Len(hist))
               ELSE hist
        ctx == IF Len(previousRequests) > 0
               THEN <<Message("system",
                              buildContextFromPreviousRequests(previousRequests),
                              <<>>)>>
               ELSE <<>>
    IN  sys \o h \o ctx \o <<Message("user", inp, <<>>)>>

RECURSIVE toolResultLines(_, _)
toolResultLines(steps, i) ==
    IF i > Len(steps) THEN ""
    ELSE "- Tool " \o steps[i].action.tool \o " returned: "
         \o steps[i].observation \o "\n" \o toolResultLines(steps, i + 1)

IsUser(m) == m.role = "user" \/ m.role = "human"

buildNextMessages(previousMessages, result) ==
    LET sys  == SelectSeq(previousMessages, IsSystem)
        usrs == SelectSeq(previousMessages, IsUser)
        usr  == IF Len(usrs) > 0 THEN <<usrs[Len(usrs)]>> ELSE <<>>
        asst == IF result.output # ""
                THEN <<Message("assistant", result.output,
                               [i \in 1..Len(result.toolCalls) |->
                                    ToolCallOfRequest(result.toolCalls[i])])>>
                ELSE <<>>
        res  == IF Len(result.intermediateSteps) > 0
                THEN <<Message("user",
                        "Based on previous tool execution results:\n"
                        \o toolResultLines(result.intermediateSteps, 1)
                        \o "\nPlease continue analysis or complete the task based on these results.",
                        <<>>)>>
                ELSE <<>>
    IN  sys \o usr \o asst \o res

\* SaveContext of a memory provider without a history limit: a user message,
\* then an assistant message
SaveContext(hist, inp, out) ==
    hist \o <<Message("user", inp, <<>>), Message("assistant", out, <<>>)>>

\* ------------------------------------------------------- memory providers
\* SimpleMemoryProvider keeps p.messages oldest first.

\* p.messages[len(p.messages)-max:] when a limit is set and exceeded
SimpleTrim(messages, max) ==
    IF max > 0 /\ Len(messages) > max
    THEN SubSeq(messages, Len(messages) - max + 1, Len(messages))
    ELSE messages

\* SimpleMemoryProvider.AddMessage
SimpleAddMessage(messages, max, msg) == SimpleTrim(Append(messages, msg), max)

\* SimpleMemoryProvider.SaveContext: the user message, then the assistant's,
\* each followed by the trim
SimpleSaveContext(messages, max, inp, out) ==
    SimpleTrim(Append(SimpleTrim(Append(messages, Message("user", inp, <<>>)), max),
                      Message("assistant", out, <<>>)), max)

\* SimpleMemoryProvider.GetChatHistory
SimpleGetChatHistory(messages, max) == SimpleTrim(messages, max)

\* RedisMemoryProvider keeps one Redis list per session; a list is written
\* here from its head (index 0) to its tail.

\* the query limit of GetMessages when neither a limit nor a maximum is set
DefaultQueryLimit == 1000

\* the limit of NewRedisMemoryProvider and NewSimpleMemoryProvider
DefaultMaxHistoryMessages == 100

\* json.Marshal of role, content (and name): the tool calls are not stored
Marshal(msg) == [role |-> msg.role, content |-> msg.content]

\* json.Unmarshal into a types.Message with Role, Content (and Name)
Unmarshal(data) == Message(data.role, data.content, <<>>)

\* LPUSH key value
LPush(list, value) == <<value>> \o list

\* LRANGE key 0 stop
LRange(list, stop) ==
    SubSeq(list, 1, IF stop + 1 < Len(list) THEN stop + 1 ELSE Len(list))

\* LTRIM key 0 stop
LTrim(list, stop) ==
    SubSeq(list, 1, IF stop + 1 < Len(list) THEN stop + 1 ELSE Len(list))

\* RedisMemoryProvider.GetMessages: the first queryLimit entries of the list,
\* unmarshalled from the last of them to the first
GetMessages(list, limit, max) ==
    LET queryLimit == IF limit > 0 THEN limit
                      ELSE IF max > 0 THEN max ELSE DefaultQueryLimit
        results    == LRange(list, queryLimit - 1)
    IN  [i \in 1..Len(results) |-> Unmarshal(results[Len(results) + 1 - i])]

\* RedisMemoryProvider.GetChatHistory
GetChatHistory(list, max) == GetMessages(list, max, max)

\* RedisMemoryProvider.trimHistory
trimHistory(list, max) == IF max <= 0 THEN list ELSE LTrim(list, max - 1)

\* RedisMemoryProvider.AddMessage on a server that answers every command
RedisAddMessage(list, max, msg) ==
    LET pushed == LPush(list, Marshal(msg))
    IN  IF max > 0 THEN trimHistory(pushed, max) ELSE pushed

\* RedisMemoryProvider.SaveContext on a server that answers every command
RedisSaveContext(list, max, inp, out) ==
    RedisAddMessage(RedisAddMessage(list, max, Message("user", inp, <<>>)),
                    max, Message("assistant", out, <<>>))

IsNotSystem(msg) == msg.role # "system"

\* CompressMemory's split of the history it read: the system messages, the
\* other messages before index len(messages)-maxMessages, and those from it
systemMessages(messages) == SelectSeq(messages, IsSystem)

oldMessages(messages, maxMessages) ==
    SelectSeq(SubSeq(messages, 1, Len(messages) - maxMessages), IsNotSystem)

recentMessages(messages, maxMessages) ==
    SelectSeq(SubSeq(messages, Len(messages) - maxMessages + 1, Len(messages)),
              IsNotSystem)

\* the system message that carries the summary the model returned
SummaryMessage(summary) ==
    Message("system", "Previous conversation summary: " \o summary, <<>>)

\* compressedMessages: system messages, the summary, the recent messages
compressedMessages(messages, maxMessages, summary) ==
    systemMessages(messages) \o <<SummaryMessage(summary)>>
        \o recentMessages(messages, maxMessages)

\* the loop "for i := len(compressedMessages)-1; i >= 0; i--" from the i-th
\* message (counted from 1) down to the first: each is pushed on the head
RECURSIVE pushDown(_, _, _)
pushDown(list, compressed, i) ==
    IF i = 0 THEN list
    ELSE pushDown(LPush(list, Marshal(compressed[i])), compressed, i - 1)

\* the list CompressMemory leaves under the session's key when the model and
\* the server answer every call: unchanged when there is nothing to compress
CompressedList(list, max, maxMessages, summary) ==
    LET messages == GetChatHistory(list, max)
    IN  IF Len(messages) <= maxMessages \/ oldMessages(messages, maxMessages) = <<>>
        THEN list
        ELSE trimHistory(pushDown(<<>>,
                                  compressedMessages(messages, maxMessages, summary),
                                  Len(compressedMessages(messages, maxMessages, summary))),
                         max)

\* what the model answers to the summary prompt
Summaries == {"the user asked for sums"}

\* the history of a provider without a history limit after a CompressMemory
\* that returned nil
CompressedHistory(messages, maxMessages, summary) ==
    GetChatHistory(CompressedList([i \in 1..Len(messages) |->
                                       Marshal(messages[Len(messages) + 1 - i])],
                                  0, maxMessages, summary), 0)

\* the Redis list of a provider whose history reads `messages`
ListOf(messages) ==
    [i \in 1..Len(messages) |-> Marshal(messages[Len(messages) + 1 - i])]

\* the connection's keys before anything was stored
RedisEmpty == [key |-> <<>>, temp |-> <<>>]

\* ------------------------------------------------- MongoDBMemoryProvider
\* MessageDocument
MessageDocument(msg, t) == [role |-> msg.role, content |-> msg.content, createdAt |-> t]

\* the documents in ascending order of created_at
SortByCreatedAt(docs) ==
    CHOOSE f \in [1..Cardinality(docs) -> docs] :
        \A i, j \in 1..Cardinality(docs) : i < j => f[i].createdAt < f[j].createdAt

\* mongodb.Client.QueryByPaging(ctx, filter, sort {"created_at"}, page 1,
\* pageSize, &docs): the count of the matching documents and the first page of
\* them in ascending order of created_at
QueryByPaging(docs, pageSize) ==
    LET sorted == SortByCreatedAt(docs)
    IN  [totalCount |-> Cardinality(docs),
         docs |-> SubSeq(sorted, 1, IF pageSize < Len(sorted) THEN pageSize
                                    ELSE Len(sorted))]

\* DeleteAll with the filter created_at < t
DeleteAll(docs, t) == {d \in docs : ~(d.createdAt < t)}

\* a trimHistory that keeps the documents created last
MongoTrimNewest(docs, max) ==
    IF max <= 0 \/ Cardinality(docs) <= max THEN docs
    ELSE LET sorted == SortByCreatedAt(docs)
         IN  {sorted[i] : i \in (Len(sorted) - max + 1)..Len(sorted)}

\* MongoDBMemoryProvider.trimHistory
MongoTrimHistory(docs, max) ==
    IF max <= 0 THEN docs
    ELSE LET q == QueryByPaging(docs, max)
         IN  IF q.totalCount <= max THEN docs
             ELSE IF Len(q.docs) > 0
                  THEN DeleteAll(docs, q.docs[1].createdAt)
                  ELSE docs

\* MongoDBMemoryProvider.AddMessage at time t
MongoAddMessage(docs, max, msg, t) ==
    LET inserted == docs \cup {MessageDocument(msg, t)}
    IN  IF max > 0 THEN MongoTrimHistory(inserted, max) ELSE inserted

\* MongoDBMemoryProvider.GetMessages
MongoGetMessages(docs, limit, max) ==
    LET queryLimit == IF limit > 0 THEN limit
                      ELSE IF max > 0 THEN max ELSE DefaultQueryLimit
        page       == QueryByPaging(docs, queryLimit).docs
    IN  [i \in 1..Len(page) |-> Message(page[i].role, page[i].content, <<>>)]

\* MongoDBMemoryProvider.GetChatHistory
MongoGetChatHistory(docs, max) == MongoGetMessages(docs, max, max)

\* a provider as its constructor leaves it, with CompressMemory not running.
\* pc, maxMessages, messages, compressed, i: where CompressMemory stands and its
\* locals (messages is also kept after it returned); outcome: what the last
\* CompressMemory returned ("unchanged": nil without a rewrite); appended:
\* every message handed to AddMessage or SaveContext so far
\* collection: the documents of the session in the MongoDB collection
NewProvider(max) ==
    [maxHistoryMessages |-> max, pc |-> "idle", maxMessages |-> 0,
     messages |-> <<>>, compressed |-> <<>>, i |-> 0, outcome |-> "none",
     appended |-> <<>>, collection |-> {}]

\* ------------------------------------------------------------------ state
VARIABLES
    isRunning,   \* ae.isRunning, the single-flight gate
    config,      \* ae.config
    tools,       \* ae.tools, the ordered tool list
    toolsMap,    \* ae.toolsMap
    memory,      \* ae.memory: "nil" or "bound"; "simple" or "redis" where the
                 \* provider is driven on its own
    history,     \* the messages the bound memory provider stores, oldest first
                 \* (p.messages of SimpleMemoryProvider)
    toolCache,   \* ae.toolCache: key -> toolCacheEntry
    now,         \* the wall clock, in minutes
    runs,        \* Execute / ExecuteStream invocations so far
    pc,          \* where each caller's invocation stands
    ex,          \* the locals of each caller's execution
    chan,        \* the result channel of each caller's ExecuteStream
    ret,         \* what Execute / ExecuteStream returned to each caller
    obs,         \* what each execution did: model calls, tool runs, memory calls
    model,       \* ae.model: the answers the provider may give in each turn; the
                 \* state of one call where the LangChain provider runs alone
    ctx,         \* ae.ctx: "live" until ae.cancel() is called
    toolCacheSize, \* ae.toolCacheSize
    redis,       \* the Redis lists under the session's key and the temporary key
    provider     \* the memory provider: its limit, CompressMemory's locals

vars == <<isRunning, config, tools, toolsMap, memory, history, toolCache, now,
          runs, pc, ex, chan, ret, obs, model, ctx, toolCacheSize, redis, provider>>

ExIdle ==
    [mode |-> "", input |-> "", prev |-> <<>>, messages |-> <<>>, iteration |-> 0,
     maxIterations |-> 0, iterMax |-> 0, result |-> EmptyResult,
     pending |-> <<>>, toolCalls |-> <<>>, steps |-> <<>>,
     hasFinal |-> FALSE, finalResult |-> EmptyResult,
     accToolCalls |-> <<>>, accSteps |-> <<>>, upstream |-> <<>>,
     hasDeadline |-> FALSE, deadline |-> 0, initial |-> <<>>]

ChanNone == [open |-> FALSE, events |-> <<>>, recv |-> 0, closed |-> FALSE]

RetNone == [kind |-> "none", code |-> "", cause |-> "", result |-> EmptyResult]

\* modelCalls: model calls made; allTool: every answer so far carried tool
\* calls; lastBatch: the tool calls of the latest answer; turnLog: the tool
\* calls handled in the latest turn; stepsSeen: every step produced so far;
\* panicked: a call made by the execution panicked; loadFailed: the memory
\* provider's GetChatHistory returned an error; saveErr: its SaveContext did;
\* compressions: CompressMemory calls; compressErr: CompressMemory returned
\* an error
ObsNone ==
    [mode |-> "", maxIterations |-> 0, modelCalls |-> 0, allTool |-> TRUE,
     lastBatch |-> <<>>, turnLog |-> <<>>, stepsSeen |-> {},
     memLoads |-> 0, saves |-> 0, done |-> FALSE, panicked |-> FALSE,
     loadFailed |-> FALSE, saveErr |-> FALSE, compressions |-> 0,
     compressErr |-> FALSE]

RetError(code, cause) ==
    [kind |-> "error", code |-> code, cause |-> cause, result |-> EmptyResult]

RetResult(r) == [kind |-> "result", code |-> "", cause |-> "", result |-> r]

RetPanic == [kind |-> "panic", code |-> "", cause |-> "", result |-> EmptyResult]

RetChannel == [kind |-> "channel", code |-> "", cause |-> "", result |-> EmptyResult]

Event(type, content, code, cause, r) ==
    [type |-> type, content |-> content, code |-> code, cause |-> cause, result |-> r]

ChunkEvent(c) == Event("chunk", c, "", "", EmptyResult)
ErrorEvent(code, cause) == Event("error", "", code, cause, EmptyResult)
EndEvent(r) == Event("end", "", "", "", r)

\* ------------------------------------------------------- the model's script
Response(content, chunks, toolCalls) ==
    [content |-> content, chunks |-> chunks, toolCalls |-> toolCalls]

CallAdd(id) == ToolCall(id, "add", ArgsAdd)
CallBad(id) == ToolCall(id, "bad", ArgsNone)
CallGhost(id) == ToolCall(id, "ghost", ArgsNone)

\* what ChatWithTools may answer in one turn
ModelResponses ==
    { Response("The answer is 5", <<"The answer", " is 5">>, <<>>),
      Response("", <<>>, <<CallAdd("c1")>>),
      Response("", <<>>, <<CallBad("c1")>>),
      Response("", <<>>, <<CallGhost("c1")>>),
      Response("Let me compute.", <<"Let me compute.">>,
               <<CallBad("c1"), CallAdd("c2")>>),
      Response("", <<>>, <<CallAdd("c1"), CallAdd("c2")>>) }

StreamMsg(type, content, toolCalls) ==
    [type |-> type, content |-> content, toolCalls |-> toolCalls]

\* the upstream stream of a response: its chunks, then its tool-call batch
UpstreamOf(r) ==
    [i \in 1..Len(r.chunks) |-> StreamMsg("chunk", r.chunks[i], <<>>)]
    \o (IF Len(r.toolCalls) > 0
        THEN <<StreamMsg("tool_calls", "", r.toolCalls)>>
        ELSE <<>>)

\* a provider that may give any of the answers in every turn
AnyModel == [t \in 1..MaxIterBound |-> ModelResponses]

\* the answers the provider may give in the turn with index iteration
Answers(iteration) ==
    IF iteration + 1 \in DOMAIN model THEN model[iteration + 1] ELSE {}

\* a provider call that never returns
NoAnswer == [content |-> "", chunks |-> <<>>, toolCalls |-> <<>>, silent |-> TRUE]

\* the context the turn derives from ae.ctx: its deadline when config.Timeout
\* is set; the context is handed to no call
WithTimeout(e, timeout, t) ==
    [e EXCEPT !.hasDeadline = timeout > 0,
              !.deadline = IF timeout > 0 THEN t + timeout ELSE 0]

\* an upstream stream that breaks after its first chunk
BrokenUpstream ==
    <<StreamMsg("chunk", "The answer", <<>>), StreamMsg("error", "reset", <<>>)>>

\* the inputs of an invocation
Inputs == {"What is 2+3?"}
PreviousRequests == {<<>>}

\* the engine after NewAgentEngine(model, config) and AddTools(add, bad),
\* with or without a memory provider bound
Init ==
    /\ isRunning = FALSE
    /\ config \in [MaxIterations : 1..MaxIterBound,
                   EnableToolRetry : BOOLEAN,
                   SystemMessage : {"You are a calculator."},
                   MaxHistoryMessages : {0},
                   EnableMemoryCompress : {FALSE},
                   Timeout : {0},
                   MemoryCompressThreshold : {0}]
    /\ tools = <<ToolAdd, ToolBad>>
    /\ toolsMap = [n \in {"add", "bad"} |-> IF n = "add" THEN ToolAdd ELSE ToolBad]
    /\ memory \in {"nil", "bound"}
    /\ history = <<>>
    /\ toolCache = <<>>
    /\ now = 0
    /\ runs = 0
    /\ pc = [p \in Procs |-> "idle"]
    /\ ex = [p \in Procs |-> ExIdle]
    /\ chan = [p \in Procs |-> ChanNone]
    /\ ret = [p \in Procs |-> RetNone]
    /\ obs = [p \in Procs |-> ObsNone]
    /\ model = AnyModel
    /\ ctx = "live"
    /\ toolCacheSize = DefaultCacheSize
    /\ redis = RedisEmpty
    /\ provider = NewProvider(DefaultMaxHistoryMessages)

\* ------------------------------------------------------------ gate, returns
\* a compare-and-swap that does not compare
CompareAndSwapBlind(cur, old, new) == [swapped |-> TRUE, value |-> new]

\* atomic.Bool.CompareAndSwap(old, new) on a flag holding cur
CompareAndSwap(cur, old, new) ==
    [swapped |-> cur = old, value |-> IF cur = old THEN new ELSE cur]

\* the flag after Execute's deferred ae.isRunning.Store(false)
GateAfterExecute == FALSE

\* a worker that exits without storing into the gate
GateKeptByWorker == isRunning

\* the flag after the streaming worker's deferred ae.isRunning.Store(false)
GateAfterWorker == FALSE

\* Execute returns r to its caller; its deferred store has run
ExecuteReturns(p, r, o) ==
    /\ isRunning' = GateAfterExecute
    /\ pc' = [pc EXCEPT ![p] = "returned"]
    /\ ret' = [ret EXCEPT ![p] = r]
    /\ ex' = [ex EXCEPT ![p] = ExIdle]
    /\ obs' = [obs EXCEPT ![p] = [o EXCEPT !.done = TRUE]]
    /\ UNCHANGED chan

HasRoom(p) == Len(chan[p].events) - chan[p].recv < DefaultChannelBuffer

\* the streaming worker sends its last event and exits; its deferred calls
\* store false into the gate and then close the channel
WorkerExits(p, ev, o) ==
    /\ HasRoom(p)
    /\ chan' = [chan EXCEPT ![p].events = Append(@, ev), ![p].closed = TRUE]
    /\ isRunning' = GateAfterWorker
    /\ pc' = [pc EXCEPT ![p] = "draining"]
    /\ ex' = [ex EXCEPT ![p] = ExIdle]
    /\ obs' = [obs EXCEPT ![p] = [o EXCEPT !.done = TRUE]]
    /\ UNCHANGED ret

\* a worker that goes on to its end event after it reported an error
FailsAndEnds(p, code, streamCode, cause, o) ==
    IF ex[p].mode = "execute"
    THEN ExecuteReturns(p, RetError(code, cause), o)
    ELSE /\ HasRoom(p)
         /\ chan' = [chan EXCEPT ![p].events =
                        @ \o <<ErrorEvent(streamCode, cause), EndEvent(EmptyResult)>>,
                                 ![p].closed = TRUE]
         /\ isRunning' = GateAfterWorker
         /\ pc' = [pc EXCEPT ![p] = "draining"]
         /\ ex' = [ex EXCEPT ![p] = ExIdle]
         /\ obs' = [obs EXCEPT ![p] = [o EXCEPT !.done = TRUE]]
         /\ UNCHANGED ret

\* an execution ends with an error (code wrapping cause)
Fails(p, code, streamCode, cause, o) ==
    IF ex[p].mode = "execute"
    THEN ExecuteReturns(p, RetError(code, cause), o)
    ELSE WorkerExits(p, ErrorEvent(streamCode, cause), o)

\* a worker whose panic is not turned into an event: the channel just closes
PanicsSilently(p, o) ==
    IF ex[p].mode = "execute"
    THEN ExecuteReturns(p, RetPanic, [o EXCEPT !.panicked = TRUE])
    ELSE /\ chan' = [chan EXCEPT ![p].closed = TRUE]
         /\ isRunning' = GateAfterWorker
         /\ pc' = [pc EXCEPT ![p] = "draining"]
         /\ ex' = [ex EXCEPT ![p] = ExIdle]
         /\ obs' = [obs EXCEPT ![p] = [o EXCEPT !.done = TRUE, !.panicked = TRUE]]
         /\ UNCHANGED ret

\* a panic: Execute unwinds to its caller, the worker recovers it
Panics(p, o) ==
    IF ex[p].mode = "execute"
    THEN ExecuteReturns(p, RetPanic, [o EXCEPT !.panicked = TRUE])
    ELSE WorkerExits(p, ErrorEvent("STREAM_PANIC", ""), [o EXCEPT !.panicked = TRUE])

\* a caller issues its next invocation once every earlier return and every
\* closed channel has been taken
CanInvoke(p) ==
    /\ pc[p] = "idle"
    /\ runs < MaxRuns
    /\ \A q \in Procs : pc[q] \notin {"returned", "draining"}

Invoke(p, requests) ==
    /\ CanInvoke(p)
    /\ \E inp \in Inputs, prev \in requests :
        LET cas == CompareAndSwap(isRunning, FALSE, TRUE)
        IN  /\ runs' = runs + 1
            /\ isRunning' = cas.value
            /\ IF ~cas.swapped
               THEN /\ pc' = [pc EXCEPT ![p] = "returned"]
                    /\ ret' = [ret EXCEPT ![p] = RetError("AGENT_BUSY", "")]
                    /\ UNCHANGED <<ex, obs>>
               ELSE /\ pc' = [pc EXCEPT ![p] = "prepare"]
                    /\ ex' = [ex EXCEPT ![p] =
                                [ExIdle EXCEPT !.mode = "execute",
                                               !.input = inp, !.prev = prev]]
                    /\ obs' = [obs EXCEPT ![p] = [ObsNone EXCEPT !.mode = "execute"]]
                    /\ UNCHANGED ret
    /\ UNCHANGED <<config, tools, toolsMap, memory, history, toolCache, now, chan>>
    /\ UNCHANGED <<model, ctx, toolCacheSize, redis, provider>>

\* Execute(input, previousRequests) up to the start of its body
Execute(p) == Invoke(p, PreviousRequests)

\* ExecuteStream up to its return: the gate, the channel, the worker started
StartStream(p) ==
    /\ pc[p] = "idle"
    /\ \E inp \in Inputs, prev \in PreviousRequests :
        LET cas == CompareAndSwap(isRunning, FALSE, TRUE)
        IN  /\ runs' = runs + 1
            /\ isRunning' = cas.value
            /\ IF ~cas.swapped
               THEN /\ pc' = [pc EXCEPT ![p] = "returned"]
                    /\ ret' = [ret EXCEPT ![p] = RetError("AGENT_BUSY", "")]
                    /\ UNCHANGED <<ex, obs, chan>>
               ELSE /\ pc' = [pc EXCEPT ![p] = "prepare"]
                    /\ ex' = [ex EXCEPT ![p] =
                                [ExIdle EXCEPT !.mode = "stream",
                                               !.input = inp, !.prev = prev]]
                    /\ obs' = [obs EXCEPT ![p] = [ObsNone EXCEPT !.mode = "stream"]]
                    /\ chan' = [chan EXCEPT ![p] = [ChanNone EXCEPT !.open = TRUE]]
                    /\ ret' = [ret EXCEPT ![p] = RetChannel]
    /\ UNCHANGED <<config, tools, toolsMap, memory, history, toolCache, now>>
    /\ UNCHANGED <<model, ctx, toolCacheSize, redis, provider>>

ExecuteStream(p) == CanInvoke(p) /\ StartStream(p)

\* a prepareMessages that goes on without the history when the load failed
historyErrIgnored(load) == FALSE

\* prepareMessages returns an error: historyErr != nil
historyErr(load) == load = "error"

\* prepareMessages, then the read of config.MaxIterations that bounds the loop;
\* the call into the memory provider may return, fail or panic
Prepare(p) ==
    /\ pc[p] = "prepare"
    /\ \E load \in (IF memory = "bound" THEN {"ok", "error", "panic"} ELSE {"ok"}) :
        LET e  == ex[p]
            o1 == [obs[p] EXCEPT !.memLoads = @ + (IF memory = "bound" THEN 1 ELSE 0),
                                 !.maxIterations = config.MaxIterations,
                                 !.loadFailed = load = "error"]
        IN  IF historyErr(load)
            THEN Fails(p, "PREPARE_MESSAGES_FAILED", "PREPARE_MESSAGES_FAILED",
                       "MEMORY_HISTORY_FAILED", o1)
            ELSE IF load = "panic"
            THEN Panics(p, o1)
            ELSE /\ pc' = [pc EXCEPT ![p] = "model"]
                 /\ ex' = [ex EXCEPT ![p] =
                            [e EXCEPT !.messages =
                                         prepareMessages(config,
                                            IF memory = "bound" THEN history ELSE <<>>,
                                            e.input, e.prev),
                                      !.initial =
                                         IF e.mode = "stream"
                                         THEN prepareMessages(config,
                                                IF memory = "bound" THEN history ELSE <<>>,
                                                e.input, e.prev)
                                         ELSE <<>>,
                                      !.maxIterations = config.MaxIterations,
                                      !.iteration = 0]]
                 /\ obs' = [obs EXCEPT ![p] = o1]
                 /\ UNCHANGED <<isRunning, chan, ret>>
    /\ UNCHANGED <<config, tools, toolsMap, memory, history, toolCache, now, runs>>
    /\ UNCHANGED <<model, ctx, toolCacheSize, redis, provider>>

\* -------------------------------------------------------- the iteration loop
\* the locals of executeIteration / executeStreamIteration die with the turn
EndTurn(e) ==
    [e EXCEPT !.result = EmptyResult, !.pending = <<>>, !.toolCalls = <<>>,
              !.steps = <<>>, !.upstream = <<>>, !.iterMax = 0,
              !.hasDeadline = FALSE, !.deadline = 0]

\* Execute's loop body after executeIteration returned (result, continueIterating)
ExecuteLoopStep(e, result, continueIterating) ==
    LET e1 == [EndTurn(e) EXCEPT !.hasFinal = TRUE, !.finalResult = result]
        it == e.iteration + 1
    IN  IF ~continueIterating \/ Len(result.toolCalls) = 0
        THEN [pc |-> "finish", ex |-> [e1 EXCEPT !.messages = <<>>]]
        ELSE IF it < e.maxIterations
             THEN [pc |-> "model",
                   ex |-> [e1 EXCEPT !.messages = buildNextMessages(e.messages, result),
                                     !.iteration = it]]
             ELSE [pc |-> "finish",
                   ex |-> [e1 EXCEPT !.messages = <<>>, !.iteration = it]]

\* executeStreamWithIterations' loop body after executeStreamIteration returned
StreamLoopStep(e, iterationResult, hasMore) ==
    LET e1 == [EndTurn(e) EXCEPT
                  !.finalResult = [@ EXCEPT !.output = iterationResult.output],
                  !.accToolCalls = @ \o iterationResult.toolCalls,
                  !.accSteps = @ \o iterationResult.intermediateSteps]
        it == e.iteration + 1
    IN  IF ~hasMore
        THEN [pc |-> "finish", ex |-> [e1 EXCEPT !.messages = <<>>]]
        ELSE IF it < e.maxIterations
             THEN [pc |-> "model",
                   ex |-> [e1 EXCEPT !.messages =
                                        buildNextMessages(e.messages, iterationResult),
                                     !.iteration = it]]
             ELSE [pc |-> "finish",
                   ex |-> [e1 EXCEPT !.messages = <<>>, !.iteration = it]]

\* the execution of p moves on to step.pc with the locals step.ex
Advance(p, step, o) ==
    /\ pc' = [pc EXCEPT ![p] = step.pc]
    /\ ex' = [ex EXCEPT ![p] = step.ex]
    /\ obs' = [obs EXCEPT ![p] = o]
    /\ UNCHANGED <<isRunning, chan, ret>>

\* executeIteration after a response: the last-turn rule, the scheduler
ExecuteAfterResponse(e, r, tm) ==
    LET result == AgentResult(r.content, <<>>, <<>>)
    IN  IF Len(r.toolCalls) > 0
        THEN IF e.iteration + 1 >= e.iterMax
             THEN ExecuteLoopStep(e, result, FALSE)
             ELSE [pc |-> "tools",
                   ex |-> [e EXCEPT !.result = result,
                                    !.pending = SortedOrFallback(r.toolCalls, tm),
                                    !.toolCalls = <<>>, !.steps = <<>>]]
        ELSE ExecuteLoopStep(e, result, FALSE)

\* one model turn: ChatWithTools (Execute) or ChatWithToolsStream (stream)
ModelTurn(p) ==
    /\ pc[p] = "model"
    /\ LET e  == WithTimeout([ex[p] EXCEPT !.iterMax = config.MaxIterations],
                             config.Timeout, now)
           o1 == [obs[p] EXCEPT !.modelCalls = @ + 1, !.lastBatch = <<>>,
                                !.turnLog = <<>>]
       IN  \E outcome \in {"answer", "error", "panic"}
                    \cup (IF NoAnswer \in Answers(e.iteration) THEN {"silent"} ELSE {}) :
             IF outcome = "silent"
             THEN Advance(p, [pc |-> "waiting", ex |-> e], o1)
             ELSE IF outcome = "error"
             THEN Fails(p, "ITERATION_FAILED", "STREAM_ITERATION_FAILED",
                        IF e.mode = "execute" THEN "CHAT_FAILED"
                                              ELSE "STREAM_CHAT_FAILED", o1)
             ELSE IF outcome = "panic"
             THEN Panics(p, o1)
             ELSE IF e.mode = "execute"
             THEN \E r \in Answers(e.iteration) \ {NoAnswer} :
                    Advance(p, ExecuteAfterResponse(e, r, toolsMap),
                            [o1 EXCEPT !.lastBatch = r.toolCalls,
                                       !.allTool = @ /\ Len(r.toolCalls) > 0])
             ELSE \E up \in {UpstreamOf(r) : r \in Answers(e.iteration) \ {NoAnswer}}
                                \cup {BrokenUpstream} :
                    Advance(p, [pc |-> "streaming",
                                ex |-> [e EXCEPT !.upstream = up,
                                                 !.result = EmptyResult,
                                                 !.steps = <<>>]],
                            o1)
    /\ UNCHANGED <<config, tools, toolsMap, memory, history, toolCache, now, runs>>
    /\ UNCHANGED <<model, ctx, toolCacheSize, redis, provider>>

\* the worker takes the next message of the upstream stream
StreamRecv(p) ==
    /\ pc[p] = "streaming"
    /\ ex[p].upstream # <<>>
    /\ LET e   == ex[p]
           msg == Head(e.upstream)
           e1  == [e EXCEPT !.upstream = Tail(@)]
       IN  IF msg.type = "chunk"
           THEN /\ HasRoom(p)
                /\ chan' = [chan EXCEPT ![p].events = Append(@, ChunkEvent(msg.content))]
                /\ ex' = [ex EXCEPT ![p] =
                            [e1 EXCEPT !.result.output = @ \o msg.content]]
                /\ UNCHANGED <<pc, obs, isRunning, ret>>
           ELSE IF msg.type = "tool_calls"
           THEN /\ ex' = [ex EXCEPT ![p] =
                            [e1 EXCEPT !.result.toolCalls = @ \o
                                [i \in 1..Len(msg.toolCalls) |->
                                    ToolCallRequest(msg.toolCalls[i])]]]
                /\ obs' = [obs EXCEPT ![p].lastBatch = @ \o msg.toolCalls]
                /\ UNCHANGED <<pc, chan, isRunning, ret>>
           ELSE Fails(p, "ITERATION_FAILED", "STREAM_ITERATION_FAILED",
                      "STREAM_ERROR", obs[p])
    /\ UNCHANGED <<config, tools, toolsMap, memory, history, toolCache, now, runs>>
    /\ UNCHANGED <<model, ctx, toolCacheSize, redis, provider>>

\* the upstream stream is closed: the last-turn rule, the scheduler
StreamEnd(p) ==
    /\ pc[p] = "streaming"
    /\ ex[p].upstream = <<>>
    /\ LET e == ex[p]
           o == [obs[p] EXCEPT !.allTool = @ /\ Len(e.result.toolCalls) > 0]
       IN  IF Len(e.result.toolCalls) > 0
           THEN IF e.iteration + 1 >= e.iterMax
                THEN Advance(p, StreamLoopStep(e, e.result, FALSE), o)
                ELSE Advance(p,
                        [pc |-> "tools",
                         ex |-> [e EXCEPT !.pending =
                                    SortedOrFallback(
                                        [i \in 1..Len(e.result.toolCalls) |->
                                            ToolCallOfRequest(e.result.toolCalls[i])],
                                        toolsMap)]],
                        o)
           ELSE Advance(p, StreamLoopStep(e, e.result, FALSE), o)
    /\ UNCHANGED <<config, tools, toolsMap, memory, history, toolCache, now, runs>>
    /\ UNCHANGED <<model, ctx, toolCacheSize, redis, provider>>

\* ------------------------------------------------------------ tool executor
LogEntry(e, tc, kind) ==
    [turn |-> e.iteration, call |-> tc, kind |-> kind,
     retry |-> config.EnableToolRetry]

\* the record of one handled tool call, and of the steps it added
Logged(o, before, after, tc, kind) ==
    [o EXCEPT !.turnLog = Append(@, LogEntry(before, tc, kind)),
              !.stepsSeen = @ \cup {after.steps[i] :
                                        i \in (Len(before.steps) + 1)..Len(after.steps)}]

\* the locals after a tool call yielded (value, err), from the cache or the tool
AfterToolResult(e, tc, value, err) ==
    IF e.mode = "execute"
    THEN [e EXCEPT !.toolCalls = Append(@, ToolCallRequest(tc)),
                   !.steps = Append(@, ToolCallData(tc, Sprintf(value)))]
    ELSE [e EXCEPT !.steps = Append(@,
                ToolCallData(tc,
                    IF err # "" THEN FailedObservation(err)
                    ELSE truncateString(Sprintf(value), MaxTruncationLength)))]

\* the locals after tool.Execute returned the error err
AfterToolError(e, tc, err) ==
    IF e.mode = "execute"
    THEN [e EXCEPT !.steps = Append(@, ToolCallData(tc, FailedObservation(err)))]
    ELSE e

\* one pass of the loop over the sorted tool calls; tool.Execute may return
\* a value, return an error or panic
\* a tool error that does not end the handling of the call
toolErrIgnored(err) == FALSE

\* if err != nil after tool.Execute: the step is recorded and the loop continues
toolErr(err) == err # ""

ToolStep(p) ==
    /\ pc[p] = "tools"
    /\ ex[p].pending # <<>>
    /\ LET e   == [ex[p] EXCEPT !.pending = Tail(@)]
           tc  == Head(ex[p].pending)
       IN  IF tc.name \notin DOMAIN toolsMap
           THEN /\ ex' = [ex EXCEPT ![p] = e]
                /\ obs' = [obs EXCEPT ![p] = Logged(obs[p], ex[p], e, tc, "missing")]
                /\ UNCHANGED <<toolCache, isRunning, pc, chan, ret>>
           ELSE LET hit == getCachedToolResult(config.EnableToolRetry, toolCache,
                                               now, tc.name, tc.args)
                    run == ToolExecute(toolsMap[tc.name], tc.args)
                IN  IF hit.cached
                    THEN /\ ex' = [ex EXCEPT ![p] =
                                    AfterToolResult(e, tc, hit.result, hit.err)]
                         /\ obs' = [obs EXCEPT ![p] =
                                        Logged(obs[p], ex[p], ex'[p], tc, "cached")]
                         /\ UNCHANGED <<toolCache, isRunning, pc, chan, ret>>
                    ELSE \E outcome \in {"return", "panic"} :
                         IF outcome = "panic"
                         THEN /\ Panics(p, obs[p])
                              /\ UNCHANGED toolCache
                         ELSE IF toolErr(run.err)
                         THEN /\ ex' = [ex EXCEPT ![p] = AfterToolError(e, tc, run.err)]
                              /\ obs' = [obs EXCEPT ![p] =
                                            Logged(obs[p], ex[p], ex'[p], tc, "failed")]
                              /\ UNCHANGED <<toolCache, isRunning, pc, chan, ret>>
                         ELSE /\ toolCache' \in
                                    setCachedToolResult(config.EnableToolRetry, toolCache,
                                                        toolCacheSize, now, tc.name,
                                                        tc.args, run.result, run.err)
                              /\ ex' = [ex EXCEPT ![p] =
                                        AfterToolResult(e, tc, run.result, run.err)]
                              /\ obs' = [obs EXCEPT ![p] =
                                            Logged(obs[p], ex[p], ex'[p], tc, "executed")]
                              /\ UNCHANGED <<isRunning, pc, chan, ret>>
    /\ UNCHANGED <<config, tools, toolsMap, memory, history, now, runs>>
    /\ UNCHANGED <<model, ctx, toolCacheSize, redis, provider>>

\* the batch is done: executeIteration / executeStreamIteration return
IterationEnd(p) ==
    /\ pc[p] = "tools"
    /\ ex[p].pending = <<>>
    /\ LET e == ex[p]
       IN  IF e.mode = "execute"
           THEN Advance(p,
                    ExecuteLoopStep(e,
                        AgentResult(e.result.output, e.toolCalls, e.steps),
                        Len(e.toolCalls) > 0),
                    obs[p])
           ELSE Advance(p,
                    StreamLoopStep(e,
                        AgentResult(e.result.output, e.result.toolCalls, e.steps),
                        Len(e.result.toolCalls) > 0),
                    obs[p])
    /\ UNCHANGED <<config, tools, toolsMap, memory, history, toolCache, now, runs>>
    /\ UNCHANGED <<model, ctx, toolCacheSize, redis, provider>>

\* a save that takes its input from the first of the initial messages
SavedInputFirst(e) ==
    IF e.mode = "execute" THEN e.input ELSE e.initial[1].content

\* the input handed to SaveContext: Execute's argument, or the content of the
\* last of the stream's initial messages
SavedInput(e) ==
    IF e.mode = "execute" THEN e.input ELSE e.initial[Len(e.initial)].content

\* after the loop: the save to memory, which may return, fail or panic, then
\* the result; the compression that may follow a save is off
\* (config.EnableMemoryCompress = FALSE)
\* a memory call whose error ends the execution
InterruptsOnError(outcome) == outcome \in {"panic", "error"}

\* what a memory call after the loop must do to end the execution: panic; an
\* error is logged and the flow goes on
Interrupts(outcome) == outcome = "panic"

\* compression whenever a threshold is set
compressWithThreshold(c) == c.MemoryCompressThreshold > 0

\* enableCompress && compressThreshold > 0
compressEnabled(c) == c.EnableMemoryCompress /\ c.MemoryCompressThreshold > 0

\* len(history) > compressThreshold
overThreshold(len, c) == len > c.MemoryCompressThreshold

\* after the loop: SaveContext; when it returned nil and compression is on,
\* GetChatHistory and, over the threshold, CompressMemory; then the result
Finish(p) ==
    /\ pc[p] = "finish"
    /\ LET e == ex[p]
       IN  IF e.mode = "execute" /\ ~e.hasFinal
           THEN /\ Panics(p, obs[p])
                /\ UNCHANGED history
           ELSE \E save \in (IF memory = "bound" THEN {"ok", "error", "panic"}
                                                  ELSE {"none"}) :
                \E read \in (IF save = "ok" /\ compressEnabled(config)
                             THEN {"ok", "error", "panic"} ELSE {"none"}) :
                \E comp \in (IF read = "ok"
                                /\ overThreshold(Len(SaveContext(history, SavedInput(e),
                                                     e.finalResult.output)), config)
                             THEN {"ok", "error", "panic"} ELSE {"none"}),
                   summary \in Summaries :
                  LET final == IF e.mode = "execute" THEN e.finalResult
                               ELSE AgentResult(e.finalResult.output,
                                                e.accToolCalls, e.accSteps)
                      saved == SaveContext(history, SavedInput(e), e.finalResult.output)
                      o == [obs[p] EXCEPT
                               !.saves = @ + (IF memory = "bound" THEN 1 ELSE 0),
                               !.saveErr = save = "error",
                               !.compressions = @ + (IF comp # "none" THEN 1 ELSE 0),
                               !.compressErr = comp = "error"]
                  IN  /\ history' = IF comp = "ok"
                                    THEN CompressedHistory(saved,
                                             config.MemoryCompressThreshold, summary)
                                    ELSE IF save = "ok" THEN saved ELSE history
                      /\ IF Interrupts(save) \/ Interrupts(read) \/ Interrupts(comp)
                         THEN Panics(p, o)
                         ELSE IF e.mode = "execute"
                         THEN ExecuteReturns(p, RetResult(final), o)
                         ELSE WorkerExits(p, EndEvent(final), o)
    /\ UNCHANGED <<config, tools, toolsMap, memory, toolCache, now, runs>>
    /\ UNCHANGED <<model, ctx, toolCacheSize, redis, provider>>

\* ------------------------------------------------------------- the callers
\* the consumer takes the next event off the channel; it reads the stream
\* once the worker is done (the buffer holds every event of a run)
Receive(p) ==
    /\ pc[p] = "draining"
    /\ chan[p].open
    /\ chan[p].recv < Len(chan[p].events)
    /\ chan' = [chan EXCEPT ![p].recv = @ + 1]
    /\ UNCHANGED <<isRunning, config, tools, toolsMap, memory, history, toolCache,
                   now, runs, pc, ex, ret, obs>>
    /\ UNCHANGED <<model, ctx, toolCacheSize, redis, provider>>

\* the consumer has drained the channel and sees it closed
ObserveClosed(p) ==
    /\ pc[p] = "draining"
    /\ chan[p].closed
    /\ chan[p].recv = Len(chan[p].events)
    /\ pc' = [pc EXCEPT ![p] = "idle"]
    /\ chan' = [chan EXCEPT ![p] = ChanNone]
    /\ ret' = [ret EXCEPT ![p] = RetNone]
    /\ obs' = [obs EXCEPT ![p] = ObsNone]
    /\ UNCHANGED <<isRunning, config, tools, toolsMap, memory, history, toolCache,
                   now, runs, ex>>
    /\ UNCHANGED <<model, ctx, toolCacheSize, redis, provider>>

\* the caller has taken what Execute / ExecuteStream returned
Acknowledge(p) ==
    /\ pc[p] = "returned"
    /\ pc' = [pc EXCEPT ![p] = "idle"]
    /\ ret' = [ret EXCEPT ![p] = RetNone]
    /\ obs' = [obs EXCEPT ![p] = ObsNone]
    /\ UNCHANGED <<isRunning, config, tools, toolsMap, memory, history, toolCache,
                   now, runs, ex, chan>>
    /\ UNCHANGED <<model, ctx, toolCacheSize, redis, provider>>

SetEnableToolRetry(enable) ==
    /\ config' = [config EXCEPT !.EnableToolRetry = enable]
    /\ UNCHANGED <<isRunning, tools, toolsMap, memory, history, toolCache, now,
                   runs, pc, ex, chan, ret, obs>>
    /\ UNCHANGED <<model, ctx, toolCacheSize, redis, provider>>

\* time passes; the clock is only ever compared with the cache's timestamps
Tick ==
    /\ DOMAIN toolCache # {}
    /\ now + CacheExpirationTime <= MaxNow
    /\ now' = now + CacheExpirationTime
    /\ UNCHANGED <<isRunning, config, tools, toolsMap, memory, history, toolCache,
                   runs, pc, ex, chan, ret, obs>>
    /\ UNCHANGED <<model, ctx, toolCacheSize, redis, provider>>

Next ==
    \/ \E p \in Procs : Execute(p)
    \/ \E p \in Procs : ExecuteStream(p)
    \/ \E p \in Procs : Prepare(p)
    \/ \E p \in Procs : ModelTurn(p)
    \/ \E p \in Procs : StreamRecv(p)
    \/ \E p \in Procs : StreamEnd(p)
    \/ \E p \in Procs : ToolStep(p)
    \/ \E p \in Procs : IterationEnd(p)
    \/ \E p \in Procs : Finish(p)
    \/ \E p \in Procs : Receive(p)
    \/ \E p \in Procs : ObserveClosed(p)
    \/ \E p \in Procs : Acknowledge(p)
    \/ \E enable \in BOOLEAN : SetEnableToolRetry(enable)
    \/ Tick

Spec == Init /\ [][Next]_vars

\* ================================================================== claims
InFlight(p) ==
    pc[p] \in {"prepare", "model", "waiting", "streaming", "tools", "finish"}

Busy(p) == ret[p].kind = "error" /\ ret[p].code = "AGENT_BUSY"

LastEvent(p) == chan[p].events[Len(chan[p].events)]

\* the execution of p has ended with a result
Succeeded(p) ==
    /\ obs[p].done
    /\ IF obs[p].mode = "execute"
       THEN pc[p] = "returned" /\ ret[p].kind = "result"
       ELSE pc[p] = "draining" /\ LastEvent(p).type = "end"

FinalResult(p) ==
    IF obs[p].mode = "execute" THEN ret[p].result ELSE LastEvent(p).result

Range(f) == {f[i] : i \in DOMAIN f}

\* the tool of the call was run (not skipped, not answered from the cache)
Ran(entry) == entry.kind \in {"executed", "failed"}

\* the batch of the current turn of p has been worked off
BatchDone(p) == pc[p] = "tools" /\ ex[p].pending = <<>>

\* C1: at most one execution is in flight at any time, the gate is held while
\* one is, and a call is answered AGENT_BUSY only while another execution is
\* in flight, without a memory load, a model call or a tool run of its own.
C1_State ==
    /\ Cardinality({p \in Procs : InFlight(p)}) <= 1
    /\ (\E p \in Procs : InFlight(p)) => isRunning
    /\ \A p \in Procs : Busy(p) => obs[p] = ObsNone /\ ex[p] = ExIdle /\ ~chan[p].open

C1_Step ==
    \A p \in Procs :
        /\ (~Busy(p) /\ Busy(p)') => \E q \in Procs \ {p} : InFlight(q) /\ InFlight(q)'
        /\ (pc[p] = "idle" /\ InFlight(p)') => \A q \in Procs \ {p} : ~InFlight(q)

C1_SingleFlight == [](C1_State) /\ [][C1_Step]_vars

C1_Witness ==
    \E p, q \in Procs : InFlight(p) /\ obs[p].modelCalls > 0 /\ Busy(q)

\* C2: once Execute has returned (a result, an error, a panic) or the stream's
\* channel is closed, the gate is free unless another execution took it: a
\* new call's compare-and-swap succeeds.
C2_GateReleased ==
    \A p \in Procs :
        ((pc[p] = "returned" /\ ~Busy(p)) \/ (pc[p] = "draining" /\ chan[p].closed))
            => \/ \E q \in Procs \ {p} : InFlight(q)
               \/ CompareAndSwap(isRunning, FALSE, TRUE).swapped

C2_Witness ==
    \E p \in Procs :
        /\ pc[p] = "draining" /\ chan[p].closed
        /\ LastEvent(p).type = "error" /\ LastEvent(p).code = "STREAM_PANIC"
        /\ ~isRunning

\* C3: an execution makes at most max_iterations model calls, and one whose
\* every answer requested a tool ends with a result after exactly
\* max_iterations model calls.
C3_BoundedIteration ==
    \A p \in Procs :
        /\ obs[p].modelCalls > 0 => obs[p].modelCalls <= obs[p].maxIterations
        /\ (Succeeded(p) /\ obs[p].allTool)
                => obs[p].modelCalls = obs[p].maxIterations

\* C4: no tool is run on the final allowed turn, and every turn in which a
\* tool was run is followed by another model turn of the same execution.
C4_NoToolOnFinalTurn ==
    \A p \in Procs :
        /\ \A i \in DOMAIN obs[p].turnLog :
              Ran(obs[p].turnLog[i]) => obs[p].turnLog[i].turn + 1 < obs[p].maxIterations
        /\ obs[p].done => \A i \in DOMAIN obs[p].turnLog : ~Ran(obs[p].turnLog[i])

\* C5: when the model emits tool calls on the final allowed turn, the final
\* result lists those calls in tool_calls, and that turn added no step.
C5_FinalTurnCallsRecorded ==
    \A p \in Procs :
        (/\ Succeeded(p)
         /\ obs[p].modelCalls = obs[p].maxIterations
         /\ obs[p].lastBatch # <<>>)
            => /\ \A i \in DOMAIN obs[p].lastBatch :
                    ToolCallRequest(obs[p].lastBatch[i]) \in Range(FinalResult(p).toolCalls)
               /\ obs[p].turnLog = <<>>

\* C6: the result Execute returns contains every intermediate step produced
\* in the turns of the execution.
C6_ExecuteKeepsSteps ==
    \A p \in Procs :
        (Succeeded(p) /\ obs[p].mode = "execute")
            => obs[p].stepsSeen \subseteq Range(FinalResult(p).intermediateSteps)

\* C7: in a non-final turn every call of a registered tool that reaches the
\* executor yields exactly one step of that turn, whether the tool succeeded
\* or failed.
C7_OneStepPerCall ==
    \A p \in Procs :
        BatchDone(p) =>
            \A i \in DOMAIN obs[p].turnLog :
                obs[p].turnLog[i].kind # "missing"
                    => Cardinality({j \in DOMAIN ex[p].steps :
                            ex[p].steps[j].action.toolCallID
                                = obs[p].turnLog[i].call.id}) = 1

\* C8: Execute ends with a result before max_iterations model calls only when
\* the latest answer of the model carried no tool calls.
C8_StopsOnlyWithoutToolCalls ==
    \A p \in Procs :
        (/\ Succeeded(p) /\ obs[p].mode = "execute"
         /\ obs[p].modelCalls < obs[p].maxIterations)
            => obs[p].lastBatch = <<>>

\* C9: two calls of one batch with identical (name, args) to a registered,
\* succeeding tool: with enable_tool_retry off both run the tool; with it on
\* the second is answered from the cache and has a step.
C9_DuplicateCalls ==
    \A p \in Procs :
        BatchDone(p) =>
            \A i, j \in DOMAIN obs[p].lastBatch :
                (/\ i < j
                 /\ obs[p].lastBatch[i].name = "add"
                 /\ obs[p].lastBatch[j].name = "add"
                 /\ obs[p].lastBatch[i].args = obs[p].lastBatch[j].args)
                    => LET log  == obs[p].turnLog
                           of(c) == {k \in DOMAIN log : log[k].call = c}
                           first  == of(obs[p].lastBatch[i])
                           second == of(obs[p].lastBatch[j])
                       IN  /\ first # {} /\ second # {}
                           /\ \A k \in second :
                                /\ ~log[k].retry => log[k].kind = "executed"
                                /\ log[k].retry => log[k].kind = "cached"
                           /\ \A k \in first : ~log[k].retry => log[k].kind = "executed"
                           /\ \E k \in DOMAIN ex[p].steps :
                                ex[p].steps[k].action.toolCallID = obs[p].lastBatch[j].id

\* C10: with enable_tool_retry off no lookup reports a hit and no step changes
\* the cache.
C10_State ==
    \A p \in Procs : \A i \in DOMAIN obs[p].turnLog :
        obs[p].turnLog[i].kind = "cached" => obs[p].turnLog[i].retry

C10_Step == ~config.EnableToolRetry => toolCache' = toolCache

C10_CacheBypassed == [](C10_State) /\ [][C10_Step]_vars

\* the tool ran with the flag off although a fresh entry for the call is cached
C10_Witness ==
    \E p \in Procs : \E i \in DOMAIN obs[p].turnLog :
        LET entry == obs[p].turnLog[i]
            k == generateToolCacheKey(entry.call.name, entry.call.args)
        IN  /\ entry.kind = "executed" /\ ~entry.retry
            /\ k \in DOMAIN toolCache
            /\ now - toolCache[k].timestamp < CacheExpirationTime

\* the cache holds an entry under key k that is younger than CacheExpirationTime
Fresh(k) ==
    k \in DOMAIN toolCache /\ now - toolCache[k].timestamp < CacheExpirationTime

\* the executor of p handles one more tool call in this step
Handles(p) == Len(obs'[p].turnLog) = Len(obs[p].turnLog) + 1

Handled(p) == obs'[p].turnLog[Len(obs'[p].turnLog)]

\* C11: a call is answered from the cache only if the entry under its key is
\* younger than CacheExpirationTime at the lookup; with the cache enabled, a
\* call whose entry is absent or at least that old runs the tool again, and a
\* successful run stores a new entry stamped with the current time.
C11_Step ==
    \A p \in Procs :
        Handles(p) =>
            LET entry == Handled(p)
                k == generateToolCacheKey(entry.call.name, entry.call.args)
            IN  /\ entry.kind = "cached" => Fresh(k)
                /\ (entry.retry /\ entry.kind # "missing" /\ ~Fresh(k))
                        => /\ Ran(entry)
                           /\ entry.kind = "executed"
                                => /\ k \in DOMAIN toolCache'
                                   /\ toolCache'[k].timestamp = now
                /\ (entry.retry /\ entry.kind # "missing" /\ Fresh(k))
                        => entry.kind = "cached"

C11_FreshHitsOnly == [][C11_Step]_vars

\* the tool ran again, with the cache enabled, over an entry that had expired
C11_Witness ==
    \E p \in Procs : \E i \in DOMAIN obs[p].turnLog :
        LET entry == obs[p].turnLog[i]
            k == generateToolCacheKey(entry.call.name, entry.call.args)
        IN  /\ entry.kind = "executed" /\ entry.retry
            /\ now >= CacheExpirationTime
            /\ k \in DOMAIN toolCache /\ toolCache[k].timestamp = now

\* ------------------------------------------------- the cache under pressure
\* An engine with ScaledCacheSize + 1 tools that all succeed and a cache of
\* ScaledCacheSize entries; the provider asks for the tools k..ScaledCacheSize+1
\* in the first turn and answers in the second; one caller uses Execute.
CacheToolNames == {"t" \o ToString(i) : i \in 1..(ScaledCacheSize + 1)}

CacheTool(n) == [name |-> n, priority |-> 0, dependencies |-> <<>>]

\* the calls of tools i..ScaledCacheSize+1 that S selects, in index order
RECURSIVE CacheBatch(_, _)
CacheBatch(S, i) ==
    IF i > ScaledCacheSize + 1 THEN <<>>
    ELSE (IF i \in S THEN <<ToolCall("c" \o ToString(i), "t" \o ToString(i), ArgsNone)>>
          ELSE <<>>) \o CacheBatch(S, i + 1)

CacheModel ==
    << {Response("", <<>>, CacheBatch(S, 1)) :
            S \in {k..(ScaledCacheSize + 1) : k \in 1..(ScaledCacheSize + 1)}},
       {Response("done", <<"done">>, <<>>)} >>

InitCache ==
    /\ isRunning = FALSE
    /\ config = [MaxIterations |-> 2, EnableToolRetry |-> TRUE,
                 SystemMessage |-> "", MaxHistoryMessages |-> 0,
                 EnableMemoryCompress |-> FALSE, Timeout |-> 0, MemoryCompressThreshold |-> 0]
    /\ tools = [i \in 1..(ScaledCacheSize + 1) |-> CacheTool("t" \o ToString(i))]
    /\ toolsMap = [n \in CacheToolNames |-> CacheTool(n)]
    /\ memory = "nil"
    /\ history = <<>>
    /\ toolCache = <<>>
    /\ now = 0
    /\ runs = 0
    /\ pc = [p \in Procs |-> "idle"]
    /\ ex = [p \in Procs |-> ExIdle]
    /\ chan = [p \in Procs |-> ChanNone]
    /\ ret = [p \in Procs |-> RetNone]
    /\ obs = [p \in Procs |-> ObsNone]
    /\ model = CacheModel
    /\ ctx = "live"
    /\ toolCacheSize = ScaledCacheSize
    /\ redis = RedisEmpty
    /\ provider = NewProvider(DefaultMaxHistoryMessages)

\* a minute passes between two executions (an execution takes no time); the
\* clock is only ever compared with the cache's timestamps
TickMinute ==
    /\ \A p \in Procs : pc[p] = "idle"
    /\ DOMAIN toolCache # {}
    /\ now < MaxNow
    /\ now' = now + 1
    /\ UNCHANGED <<isRunning, config, tools, toolsMap, memory, history, toolCache,
                   runs, pc, ex, chan, ret, obs, model, ctx, toolCacheSize, redis, provider>>

NextCache ==
    \/ Execute(1)
    \/ Prepare(1)
    \/ ModelTurn(1)
    \/ ToolStep(1)
    \/ IterationEnd(1)
    \/ Finish(1)
    \/ Acknowledge(1)
    \/ TickMinute

SpecCache == InitCache /\ [][NextCache]_vars

\* C12: the tool-result cache never holds more than toolCacheSize entries.
C12_CacheBounded == Cardinality(DOMAIN toolCache) <= toolCacheSize

\* the cache is full and a result stored in this turn has been evicted again
C12_Witness ==
    /\ Cardinality(DOMAIN toolCache) = toolCacheSize
    /\ \E p \in Procs : \E i \in DOMAIN obs[p].turnLog :
          /\ obs[p].turnLog[i].kind = "executed"
          /\ generateToolCacheKey(obs[p].turnLog[i].call.name,
                                  obs[p].turnLog[i].call.args) \notin DOMAIN toolCache

\* ------------------------------------------------------ the scheduler at work
\* An engine with the tools A, B and C, which all succeed, under every
\* registry of priorities and dependency lists; the provider asks for a batch
\* of one to three calls in the first turn and answers in the second; one
\* caller uses Execute or ExecuteStream.
SchedTools == {"A", "B", "C"}

Priorities == {0, 1}

\* the dependency lists a tool may declare: none, itself, a chain, a fan-out,
\* and the lists that close the cycles A-B, A-B-C and A-C
DepLists(n) ==
    IF n = "A" THEN {<<>>, <<"A">>, <<"B">>, <<"B", "C">>}
    ELSE IF n = "B" THEN {<<>>, <<"C">>, <<"A">>}
    ELSE {<<>>, <<"A">>}

\* the batches: the call at position i has the id "c" i
SchedBatches ==
    UNION {{[i \in 1..n |-> ToolCall("c" \o ToString(i), names[i], ArgsNone)] :
                names \in [1..n -> SchedTools]} : n \in 1..3}

SchedModel ==
    << {Response("", <<>>, batch) : batch \in SchedBatches},
       {Response("done", <<"done">>, <<>>)} >>

InitSched ==
    /\ isRunning = FALSE
    /\ config = [MaxIterations |-> 2, EnableToolRetry |-> FALSE,
                 SystemMessage |-> "", MaxHistoryMessages |-> 0,
                 EnableMemoryCompress |-> FALSE, Timeout |-> 0, MemoryCompressThreshold |-> 0]
    /\ \E prio \in [SchedTools -> Priorities],
          deps \in {f \in [SchedTools -> UNION {DepLists(n) : n \in SchedTools}] :
                        \A n \in SchedTools : f[n] \in DepLists(n)} :
          toolsMap = [n \in SchedTools |->
                         [name |-> n, priority |-> prio[n], dependencies |-> deps[n]]]
    /\ tools = <<toolsMap["A"], toolsMap["B"], toolsMap["C"]>>
    /\ memory = "nil"
    /\ history = <<>>
    /\ toolCache = <<>>
    /\ now = 0
    /\ runs = 0
    /\ pc = [p \in Procs |-> "idle"]
    /\ ex = [p \in Procs |-> ExIdle]
    /\ chan = [p \in Procs |-> ChanNone]
    /\ ret = [p \in Procs |-> RetNone]
    /\ obs = [p \in Procs |-> ObsNone]
    /\ model = SchedModel
    /\ ctx = "live"
    /\ toolCacheSize = DefaultCacheSize
    /\ redis = RedisEmpty
    /\ provider = NewProvider(DefaultMaxHistoryMessages)

NextSched ==
    \/ Execute(1)
    \/ ExecuteStream(1)
    \/ Prepare(1)
    \/ ModelTurn(1)
    \/ StreamRecv(1)
    \/ StreamEnd(1)
    \/ ToolStep(1)
    \/ IterationEnd(1)
    \/ Finish(1)
    \/ Receive(1)
    \/ ObserveClosed(1)
    \/ Acknowledge(1)

SpecSched == InitSched /\ [][NextSched]_vars

\* the tools of the batch that the tool n names as its dependencies
InBatchDeps(n, batch) ==
    IF n \in DOMAIN toolsMap
    THEN {d \in CallNames(batch) :
            \E i \in DOMAIN toolsMap[n].dependencies :
                toolsMap[n].dependencies[i] = d}
    ELSE {}

RECURSIVE Reach(_, _, _)
Reach(S, batch, k) ==
    IF k = 0 THEN S
    ELSE Reach(S \cup UNION {InBatchDeps(m, batch) : m \in S}, batch, k - 1)

\* the tools of the batch that n depends on, directly or through others
TransDeps(n, batch) ==
    Reach(InBatchDeps(n, batch), batch, Cardinality(CallNames(batch)))

\* the dependency graph restricted to the tools of the batch has a cycle
Cyclic(batch) == \E n \in CallNames(batch) : n \in TransDeps(n, batch)

\* the names of the tools in the order their calls were handled in this turn
HandledNames(p) == [i \in DOMAIN obs[p].turnLog |-> obs[p].turnLog[i].call.name]

\* C13: in a batch whose in-batch dependency graph is acyclic, a call is
\* handled only after a call to each tool of the batch that its tool depends
\* on, and no call to such a tool is handled after it, whatever the order the
\* provider listed the calls in; when the batch is done, every tool the batch
\* names has been handled.
C13_DependenciesFirst ==
    \A p \in Procs :
        LET batch == obs[p].lastBatch
            log   == HandledNames(p)
        IN  ~Cyclic(batch) =>
              /\ \A j \in DOMAIN log : \A d \in InBatchDeps(log[j], batch) :
                    /\ \E i \in 1..(j - 1) : log[i] = d
                    /\ \A k \in (j + 1)..Len(log) : log[k] # d
              /\ BatchDone(p) =>
                    \A n \in CallNames(batch) : \E i \in DOMAIN log : log[i] = n

\* A deps [B], B deps [C], listed as A, B, C: handled as C, B, A
C13_Witness ==
    \E p \in Procs :
        /\ BatchDone(p)
        /\ toolsMap["A"].dependencies = <<"B">>
        /\ toolsMap["B"].dependencies = <<"C">>
        /\ toolsMap["C"].dependencies = <<>>
        /\ [i \in DOMAIN obs[p].lastBatch |-> obs[p].lastBatch[i].name]
              = <<"A", "B", "C">>
        /\ HandledNames(p) = <<"C", "B", "A">>

\* the priority the scheduler gives the tool n
PriorityOf(n) == IF n \in DOMAIN toolsMap THEN toolsMap[n].priority ELSE 0

\* neither tool depends on the other, directly or through tools of the batch
Independent(x, y, batch) ==
    x \notin TransDeps(y, batch) /\ y \notin TransDeps(x, batch)

\* no tool of the batch with a priority of at least prio needs the tool y
Unrequired(y, prio, batch) ==
    \A z \in CallNames(batch) : PriorityOf(z) >= prio => y \notin TransDeps(z, batch)

\* C14 as stated: of two handled calls whose tools do not depend on each
\* other, the one with the strictly higher priority is handled first.
C14_HigherPriorityFirst ==
    \A p \in Procs :
        LET batch == obs[p].lastBatch
            log   == HandledNames(p)
        IN  \A i, j \in DOMAIN log :
              (Independent(log[i], log[j], batch)
                    /\ PriorityOf(log[i]) > PriorityOf(log[j])) => i < j

\* C14: in a batch whose in-batch dependency graph is acyclic, of two handled
\* calls whose tools do not depend on each other, the one with the strictly
\* higher priority is handled first, provided that no tool of the batch with
\* at least that priority depends on the other one.
C14_PriorityAmongUnrequired ==
    \A p \in Procs :
        LET batch == obs[p].lastBatch
            log   == HandledNames(p)
        IN  ~Cyclic(batch) =>
              \A i, j \in DOMAIN log :
                (/\ Independent(log[i], log[j], batch)
                 /\ PriorityOf(log[i]) > PriorityOf(log[j])
                 /\ Unrequired(log[j], PriorityOf(log[i]), batch)) => i < j

\* B (priority 0) listed before A (priority 1), neither depending on the
\* other: handled as A, B
C14_Witness ==
    \E p \in Procs :
        /\ BatchDone(p)
        /\ PriorityOf("A") = 1 /\ PriorityOf("B") = 0
        /\ Independent("A", "B", obs[p].lastBatch)
        /\ [i \in DOMAIN obs[p].lastBatch |-> obs[p].lastBatch[i].name] = <<"B", "A">>
        /\ HandledNames(p) = <<"A", "B">>

\* the scheduler's verdict on the batch of this turn
SortError(p) == sortToolCallsByDependencies(obs[p].lastBatch, toolsMap).err

\* C15: the scheduler reports a circular dependency for a batch exactly when
\* the dependency graph restricted to the tools of the batch has a cycle.
C15_CycleReportedExactly ==
    \A p \in Procs : pc[p] = "tools" => (SortError(p) <=> Cyclic(obs[p].lastBatch))

\* ======================================================= the event stream
\* the positions of the events of a type on the channel of p
EventsOfType(p, type) == {i \in DOMAIN chan[p].events : chan[p].events[i].type = type}

\* C16: when an ExecuteStream whose latest turn delivered a tool-call batch
\* ends, the channel carries a tool_calls event for that batch, before the end
\* event.
C16_ToolCallsEvent ==
    \A p \in Procs :
        (Succeeded(p) /\ obs[p].mode = "stream" /\ obs[p].lastBatch # <<>>)
            => \E i \in EventsOfType(p, "tool_calls") : i < Len(chan[p].events)

\* the positions of the terminal events on the channel of p
Terminals(p) == EventsOfType(p, "end") \cup EventsOfType(p, "error")

\* C17: a channel holds a terminal event exactly when the worker has closed
\* it; a closed channel holds exactly one terminal event, as its last event
C17_State ==
    \A p \in Procs :
        Terminals(p) = IF chan[p].closed THEN {Len(chan[p].events)} ELSE {}

\* C17: nothing is sent on a closed channel; it stays closed until the
\* consumer has drained it and drops it
C17_Step ==
    \A p \in Procs :
        chan[p].closed =>
            \/ chan'[p].events = chan[p].events /\ chan'[p].closed
            \/ chan'[p] = ChanNone /\ chan[p].recv = Len(chan[p].events)

C17_OneTerminalEvent == [](C17_State) /\ [][C17_Step]_vars

\* a mid-stream error: the chunk that was forwarded, then the error event
C17_Witness ==
    \E p \in Procs :
        /\ chan[p].closed
        /\ chan[p].events = <<ChunkEvent("The answer"),
                              ErrorEvent("STREAM_ITERATION_FAILED", "STREAM_ERROR")>>

\* C19: after a panic of the streaming worker the channel is closed, its last
\* event is an error event with code STREAM_PANIC, it holds no other error
\* event and no end event, and the gate is released.
C19_PanicReported ==
    \A p \in Procs :
        (obs[p].mode = "stream" /\ obs[p].panicked) =>
            /\ chan[p].closed
            /\ chan[p].events # <<>>
            /\ LastEvent(p) = ErrorEvent("STREAM_PANIC", "")
            /\ EventsOfType(p, "error") = {Len(chan[p].events)}
            /\ EventsOfType(p, "end") = {}
            /\ ~isRunning

\* a panic after the turn's chunk was forwarded and its tool-call batch received
C19_Witness ==
    \E p \in Procs :
        /\ obs[p].mode = "stream" /\ obs[p].panicked
        /\ obs[p].lastBatch # <<>>
        /\ chan[p].events = <<ChunkEvent("Let me compute."),
                              ErrorEvent("STREAM_PANIC", "")>>

\* ------------------------------------------------- Execute and ExecuteStream
\* One engine, a provider with a fixed answer for every turn, retry off so
\* that no tool result is cached: caller 1 runs Execute and keeps the result,
\* then caller 2 runs ExecuteStream with the same input.
Scripts == [1..MaxIterBound -> {{r} : r \in ModelResponses}]

InitPair ==
    /\ isRunning = FALSE
    /\ config \in [MaxIterations : 1..MaxIterBound,
                   EnableToolRetry : {FALSE},
                   SystemMessage : {"You are a calculator."},
                   MaxHistoryMessages : {0},
                   EnableMemoryCompress : {FALSE},
                   Timeout : {0},
                   MemoryCompressThreshold : {0}]
    /\ tools = <<ToolAdd, ToolBad>>
    /\ toolsMap = [n \in {"add", "bad"} |-> IF n = "add" THEN ToolAdd ELSE ToolBad]
    /\ memory \in {"nil", "bound"}
    /\ history = <<>>
    /\ toolCache = <<>>
    /\ now = 0
    /\ runs = 0
    /\ pc = [p \in Procs |-> "idle"]
    /\ ex = [p \in Procs |-> ExIdle]
    /\ chan = [p \in Procs |-> ChanNone]
    /\ ret = [p \in Procs |-> RetNone]
    /\ obs = [p \in Procs |-> ObsNone]
    /\ model \in Scripts
    /\ ctx = "live"
    /\ toolCacheSize = DefaultCacheSize
    /\ redis = RedisEmpty
    /\ provider = NewProvider(DefaultMaxHistoryMessages)

\* caller 2 starts its ExecuteStream once Execute has returned its result
StreamAfterExecute ==
    /\ pc[1] = "returned"
    /\ ret[1].kind = "result"
    /\ runs < MaxRuns
    /\ StartStream(2)

NextPair ==
    \/ Execute(1)
    \/ StreamAfterExecute
    \/ \E p \in Procs : Prepare(p)
    \/ \E p \in Procs : ModelTurn(p)
    \/ StreamRecv(2)
    \/ StreamEnd(2)
    \/ \E p \in Procs : ToolStep(p)
    \/ \E p \in Procs : IterationEnd(p)
    \/ \E p \in Procs : Finish(p)

SpecPair == InitPair /\ [][NextPair]_vars

\* C18: when Execute returned a result and the ExecuteStream that followed
\* it with the same input, script and tools ended, the end event carries the
\* AgentResult that Execute returned.
C18_SameResult ==
    (pc[1] = "returned" /\ ret[1].kind = "result" /\ Succeeded(2))
        => LastEvent(2).result = ret[1].result

\* ---------------------------------------------------------------- Stop
\* The engine of Init with one caller that streams, and Stop, which may be
\* called at any moment.
\* Stop: ae.cancel(), then ae.isRunning.Store(false)
Stop ==
    /\ ctx' = "cancelled"
    /\ isRunning' = FALSE
    /\ UNCHANGED <<config, tools, toolsMap, memory, history, toolCache, now, runs,
                   pc, ex, chan, ret, obs, model, toolCacheSize, redis, provider>>

NextStop ==
    \/ ExecuteStream(1)
    \/ Prepare(1)
    \/ ModelTurn(1)
    \/ StreamRecv(1)
    \/ StreamEnd(1)
    \/ ToolStep(1)
    \/ IterationEnd(1)
    \/ Finish(1)
    \/ Receive(1)
    \/ ObserveClosed(1)
    \/ Stop

SpecStop == Init /\ [][NextStop]_vars

\* C20: once the engine's context is cancelled, the streaming worker sends no
\* further chunk event.
C20_Step ==
    \A p \in Procs :
        (ctx = "cancelled" /\ Len(chan'[p].events) > Len(chan[p].events))
            => chan'[p].events[Len(chan'[p].events)].type # "chunk"

C20_NoChunkAfterCancel == [][C20_Step]_vars

\* ------------------------------------------------------- a silent provider
\* An engine with config.Timeout (in minutes) off or on and a provider that,
\* in every turn, may answer or never return; one caller, either mode.
Timeouts == {0, 1}

InitTimeout ==
    /\ isRunning = FALSE
    /\ config \in [MaxIterations : 1..MaxIterBound,
                   EnableToolRetry : {FALSE},
                   SystemMessage : {"You are a calculator."},
                   MaxHistoryMessages : {0},
                   EnableMemoryCompress : {FALSE},
                   Timeout : Timeouts,
                   MemoryCompressThreshold : {0}]
    /\ tools = <<ToolAdd, ToolBad>>
    /\ toolsMap = [n \in {"add", "bad"} |-> IF n = "add" THEN ToolAdd ELSE ToolBad]
    /\ memory = "nil"
    /\ history = <<>>
    /\ toolCache = <<>>
    /\ now = 0
    /\ runs = 0
    /\ pc = [p \in Procs |-> "idle"]
    /\ ex = [p \in Procs |-> ExIdle]
    /\ chan = [p \in Procs |-> ChanNone]
    /\ ret = [p \in Procs |-> RetNone]
    /\ obs = [p \in Procs |-> ObsNone]
    /\ model = [t \in 1..MaxIterBound |-> ModelResponses \cup {NoAnswer}]
    /\ ctx = "live"
    /\ toolCacheSize = DefaultCacheSize
    /\ redis = RedisEmpty
    /\ provider = NewProvider(DefaultMaxHistoryMessages)

\* a minute passes while a call to the provider is outstanding; nothing in
\* the engine waits on the turn's context, so the call stays outstanding
ModelSilent ==
    /\ \E p \in Procs : pc[p] = "waiting"
    /\ now < MaxNow
    /\ now' = now + 1
    /\ UNCHANGED <<isRunning, config, tools, toolsMap, memory, history, toolCache,
                   runs, pc, ex, chan, ret, obs, model, ctx, toolCacheSize, redis, provider>>

NextTimeout ==
    \/ Execute(1)
    \/ ExecuteStream(1)
    \/ Prepare(1)
    \/ ModelTurn(1)
    \/ StreamRecv(1)
    \/ StreamEnd(1)
    \/ ToolStep(1)
    \/ IterationEnd(1)
    \/ Finish(1)
    \/ Receive(1)
    \/ ObserveClosed(1)
    \/ Acknowledge(1)
    \/ ModelSilent

SpecTimeout == InitTimeout /\ [][NextTimeout]_vars

\* C21: with config.Timeout set, no call to the provider is still outstanding
\* after the deadline of its turn has passed.
C21_TimeoutBoundsModelCall ==
    \A p \in Procs :
        (pc[p] = "waiting" /\ ex[p].hasDeadline) => now <= ex[p].deadline

\* ================================================================ memory
\* C22: with a memory provider bound, an execution that ended with a result
\* made exactly one SaveContext call, and one that ended with an error the
\* engine returned made none
C22_State ==
    \A p \in Procs :
        (obs[p].done /\ memory = "bound") =>
            /\ Succeeded(p) => obs[p].saves = 1
            /\ (~Succeeded(p) /\ ~obs[p].panicked) => obs[p].saves = 0

\* C22: the stored history changes only in the step that ends an execution
\* with a result, by the caller's input and the final output
C22_Step ==
    history' # history =>
        \E p \in Procs :
            /\ ~obs[p].done /\ obs'[p].done
            /\ ~obs'[p].panicked
            /\ IF obs'[p].mode = "execute"
               THEN /\ ret'[p].kind = "result"
                    /\ history' = history \o
                          <<Message("user", ex[p].input, <<>>),
                            Message("assistant", ret'[p].result.output, <<>>)>>
               ELSE /\ chan'[p].events[Len(chan'[p].events)].type = "end"
                    /\ history' = history \o
                          <<Message("user", ex[p].input, <<>>),
                            Message("assistant",
                                chan'[p].events[Len(chan'[p].events)].result.output,
                                <<>>)>>

C30_LoadFailureFatal ==
    \A p \in Procs :
        obs[p].loadFailed =>
            /\ obs[p].done
            /\ IF obs[p].mode = "execute"
               THEN /\ pc[p] = "returned"
                    /\ ret[p] = RetError("PREPARE_MESSAGES_FAILED", "MEMORY_HISTORY_FAILED")
               ELSE /\ pc[p] = "draining" /\ chan[p].closed
                    /\ chan[p].events = <<ErrorEvent("PREPARE_MESSAGES_FAILED",
                                                     "MEMORY_HISTORY_FAILED")>>
            /\ obs[p].modelCalls = 0
            /\ obs[p].turnLog = <<>> /\ obs[p].stepsSeen = {}
            /\ obs[p].saves = 0

\* the load of a second execution failed, after a first one had saved
C30_Witness ==
    \E p \in Procs :
        /\ obs[p].loadFailed /\ obs[p].mode = "stream"
        /\ history # <<>>

\* ---------------------------------------------------------------------------
\* Tool registration: AddTool and AddTools on a fresh engine
\* ---------------------------------------------------------------------------

\* the longest tool list the registrations build
MaxTools == 4

\* the tools a caller registers: two names, each in two implementations
RegisteredTools ==
    {[name |-> n, priority |-> q, dependencies |-> <<>>] :
        n \in {"add", "bad"}, q \in Priorities}

\* ae.toolsMap[toolName] = tool
MapStore(m, tool) ==
    [n \in DOMAIN m \cup {tool.name} |-> IF n = tool.name THEN tool ELSE m[n]]

\* the loop of AddTools: append each tool and store it under its name
RECURSIVE addEach(_, _)
addEach(reg, ts) ==
    IF ts = <<>> THEN reg
    ELSE addEach([tools |-> Append(reg.tools, Head(ts)),
                  toolsMap |-> MapStore(reg.toolsMap, Head(ts))], Tail(ts))

\* NewAgentEngine: an empty list and an empty map
InitTools ==
    /\ isRunning = FALSE
    /\ config = [MaxIterations |-> 2, EnableToolRetry |-> FALSE,
                 SystemMessage |-> "", MaxHistoryMessages |-> 0,
                 EnableMemoryCompress |-> FALSE, Timeout |-> 0, MemoryCompressThreshold |-> 0]
    /\ tools = <<>>
    /\ toolsMap = [n \in {} |-> ToolAdd]
    /\ memory = "nil"
    /\ history = <<>>
    /\ toolCache = <<>>
    /\ now = 0
    /\ runs = 0
    /\ pc = [p \in Procs |-> "idle"]
    /\ ex = [p \in Procs |-> ExIdle]
    /\ chan = [p \in Procs |-> ChanNone]
    /\ ret = [p \in Procs |-> RetNone]
    /\ obs = [p \in Procs |-> ObsNone]
    /\ model = [t \in 1..MaxIterBound |-> ModelResponses]
    /\ ctx = "live"
    /\ toolCacheSize = DefaultCacheSize
    /\ redis = RedisEmpty
    /\ provider = NewProvider(DefaultMaxHistoryMessages)

\* AgentEngine.AddTool
AddTool ==
    /\ Len(tools) < MaxTools
    /\ \E tool \in RegisteredTools :
        /\ tools' = Append(tools, tool)
        /\ toolsMap' = MapStore(toolsMap, tool)
    /\ UNCHANGED <<isRunning, config, memory, history, toolCache, now, runs,
                   pc, ex, chan, ret, obs, model, ctx, toolCacheSize, redis, provider>>

\* AgentEngine.AddTools
AddTools ==
    /\ Len(tools) + 2 <= MaxTools
    /\ \E t1 \in RegisteredTools, t2 \in RegisteredTools :
        LET reg == addEach([tools |-> tools, toolsMap |-> toolsMap], <<t1, t2>>)
        IN  /\ tools' = reg.tools
            /\ toolsMap' = reg.toolsMap
    /\ UNCHANGED <<isRunning, config, memory, history, toolCache, now, runs,
                   pc, ex, chan, ret, obs, model, ctx, toolCacheSize, redis, provider>>

NextTools ==
    \/ AddTool
    \/ AddTools

SpecTools == InitTools /\ [][NextTools]_vars

\* C29: the tool list holds no two tools of one name, its names are the
\* map's keys, and each map entry is the list's tool of that name.
C29_ListMatchesMap ==
    /\ \A i, j \in DOMAIN tools : tools[i].name = tools[j].name => i = j
    /\ {tools[i].name : i \in DOMAIN tools} = DOMAIN toolsMap
    /\ \A i \in DOMAIN tools : toolsMap[tools[i].name] = tools[i]

\* ---------------------------------------------------------------------------
\* SetConfig while an execution is in flight
\* ---------------------------------------------------------------------------

\* the configurations a caller hands to SetConfig
Configs ==
    [MaxIterations : 1..MaxIterBound,
     EnableToolRetry : BOOLEAN,
     SystemMessage : {"You are a calculator."},
     MaxHistoryMessages : {0},
     EnableMemoryCompress : {FALSE},
     Timeout : {0},
                   MemoryCompressThreshold : {0}]

InitConfig ==
    /\ isRunning = FALSE
    /\ config \in Configs
    /\ tools = <<ToolAdd, ToolBad>>
    /\ toolsMap = [n \in {"add", "bad"} |-> IF n = "add" THEN ToolAdd ELSE ToolBad]
    /\ memory = "nil"
    /\ history = <<>>
    /\ toolCache = <<>>
    /\ now = 0
    /\ runs = 0
    /\ pc = [p \in Procs |-> "idle"]
    /\ ex = [p \in Procs |-> ExIdle]
    /\ chan = [p \in Procs |-> ChanNone]
    /\ ret = [p \in Procs |-> RetNone]
    /\ obs = [p \in Procs |-> ObsNone]
    /\ model = AnyModel
    /\ ctx = "live"
    /\ toolCacheSize = DefaultCacheSize
    /\ redis = RedisEmpty
    /\ provider = NewProvider(DefaultMaxHistoryMessages)

\* AgentEngine.SetConfig: ae.config = config, at any time
SetConfig(c) ==
    /\ config' = c
    /\ UNCHANGED <<isRunning, tools, toolsMap, memory, history, toolCache, now,
                   runs, pc, ex, chan, ret, obs, model, ctx, toolCacheSize, redis, provider>>

NextConfig ==
    \/ Execute(1)
    \/ ExecuteStream(1)
    \/ Prepare(1)
    \/ ModelTurn(1)
    \/ StreamRecv(1)
    \/ StreamEnd(1)
    \/ ToolStep(1)
    \/ IterationEnd(1)
    \/ Finish(1)
    \/ Receive(1)
    \/ ObserveClosed(1)
    \/ Acknowledge(1)
    \/ \E c \in Configs : SetConfig(c)

SpecConfig == InitConfig /\ [][NextConfig]_vars

\* C28: whatever SetConfig replaced while the call was in flight, a call that
\* ended with a result ran no tool to completion in its final model turn:
\* every turn whose tool returned was followed by another model turn.
C28_TurnsAgreeWithSuppression ==
    \A p \in Procs :
        Succeeded(p) =>
            \A i \in DOMAIN obs[p].turnLog : obs[p].turnLog[i].kind # "executed"

\* ---------------------------------------------------------------------------
\* The memory providers on their own: SimpleMemoryProvider keeps its messages
\* in `history`, RedisMemoryProvider in the list redis.key
\* ---------------------------------------------------------------------------

\* the most messages the callers append
MaxAppended == 4

\* the largest history limit the callers set
MaxLimit == 3

Limits == 1..MaxLimit

\* the content of the k-th appended message
Contents == <<"m1", "m2", "m3", "m4", "m5", "m6">>

Roles == {"user", "assistant", "system"}

InitMemory ==
    /\ isRunning = FALSE
    /\ config = [MaxIterations |-> 2, EnableToolRetry |-> FALSE,
                 SystemMessage |-> "", MaxHistoryMessages |-> 0,
                 EnableMemoryCompress |-> FALSE, Timeout |-> 0, MemoryCompressThreshold |-> 0]
    /\ tools = <<ToolAdd, ToolBad>>
    /\ toolsMap = [n \in {"add", "bad"} |-> IF n = "add" THEN ToolAdd ELSE ToolBad]
    /\ memory \in {"simple", "redis"}
    /\ history = <<>>
    /\ toolCache = <<>>
    /\ now = 0
    /\ runs = 0
    /\ pc = [p \in Procs |-> "idle"]
    /\ ex = [p \in Procs |-> ExIdle]
    /\ chan = [p \in Procs |-> ChanNone]
    /\ ret = [p \in Procs |-> RetNone]
    /\ obs = [p \in Procs |-> ObsNone]
    /\ model = [t \in 1..MaxIterBound |-> ModelResponses]
    /\ ctx = "live"
    /\ toolCacheSize = DefaultCacheSize
    /\ redis = RedisEmpty
    /\ provider \in {NewProvider(max) : max \in Limits}

\* the provider's AddMessage
AddMessage ==
    /\ provider.pc = "idle"
    /\ Len(provider.appended) < MaxAppended
    /\ \E role \in Roles :
        LET msg == Message(role, Contents[Len(provider.appended) + 1], <<>>)
        IN  /\ IF memory = "simple"
               THEN /\ history' = SimpleAddMessage(history, provider.maxHistoryMessages, msg)
                    /\ UNCHANGED redis
               ELSE /\ redis' = [redis EXCEPT !.key =
                                    RedisAddMessage(@, provider.maxHistoryMessages, msg)]
                    /\ UNCHANGED history
            /\ provider' = [provider EXCEPT !.appended = Append(@, msg),
                                            !.outcome = "none"]
    /\ UNCHANGED <<isRunning, config, tools, toolsMap, memory, toolCache, now, runs,
                   pc, ex, chan, ret, obs, model, ctx, toolCacheSize>>

\* the provider's SaveContext
SaveContextCall ==
    /\ provider.pc = "idle"
    /\ Len(provider.appended) + 2 <= MaxAppended
    /\ LET inp == Contents[Len(provider.appended) + 1]
           out == Contents[Len(provider.appended) + 2]
       IN  /\ IF memory = "simple"
              THEN /\ history' = SimpleSaveContext(history, provider.maxHistoryMessages,
                                                   inp, out)
                   /\ UNCHANGED redis
              ELSE /\ redis' = [redis EXCEPT !.key =
                                   RedisSaveContext(@, provider.maxHistoryMessages,
                                                    inp, out)]
                   /\ UNCHANGED history
           /\ provider' = [provider EXCEPT
                              !.appended = @ \o <<Message("user", inp, <<>>),
                                                  Message("assistant", out, <<>>)>>,
                              !.outcome = "none"]
    /\ UNCHANGED <<isRunning, config, tools, toolsMap, memory, toolCache, now, runs,
                   pc, ex, chan, ret, obs, model, ctx, toolCacheSize>>

\* the provider's SetMaxHistoryMessages: SimpleMemoryProvider trims its
\* messages, RedisMemoryProvider sets the field
SetMaxHistoryMessages ==
    /\ provider.pc = "idle"
    /\ \E limit \in Limits :
        /\ provider' = [provider EXCEPT !.maxHistoryMessages = limit,
                                        !.outcome = "none"]
        /\ history' = IF memory = "simple" THEN SimpleTrim(history, limit) ELSE history
    /\ UNCHANGED <<isRunning, config, tools, toolsMap, memory, toolCache, now, runs,
                   pc, ex, chan, ret, obs, model, ctx, toolCacheSize, redis>>

NextLimit ==
    \/ AddMessage
    \/ SaveContextCall
    \/ SetMaxHistoryMessages

SpecLimit == InitMemory /\ [][NextLimit]_vars

\* what the provider stores, and what its GetChatHistory returns
Stored == IF memory = "simple" THEN history ELSE redis.key

ChatHistory ==
    IF memory = "simple"
    THEN SimpleGetChatHistory(history, provider.maxHistoryMessages)
    ELSE GetChatHistory(redis.key, provider.maxHistoryMessages)

\* the last n elements of a sequence
LastOf(seq, n) == SubSeq(seq, Len(seq) - n + 1, Len(seq))

\* C27: with the limit N the provider stores at most N messages, and
\* get_chat_history returns the most recently appended of them, oldest first:
\* as many as the limit and the store allow.
C27_HistoryBounded ==
    /\ Len(Stored) <= provider.maxHistoryMessages
    /\ Len(ChatHistory) <= Len(provider.appended)
    /\ ChatHistory = LastOf(provider.appended, Len(ChatHistory))
    /\ \/ Len(ChatHistory) = provider.maxHistoryMessages
       \/ Len(ChatHistory) = Len(Stored)

\* ---------------------------------------------------------------------------
\* RedisMemoryProvider.CompressMemory, one Redis or model call per step; the
\* callers make one provider call at a time
\* ---------------------------------------------------------------------------

\* the maxMessages the callers pass
CompressLimits == {1, 2}

InitRedis == InitMemory /\ memory = "redis"

\* CompressMemory returns: its locals are dropped, the temporary key is gone
Returned(outcome) ==
    [provider EXCEPT !.pc = "idle", !.compressed = <<>>, !.i = 0,
                     !.outcome = outcome]

\* CompressMemory up to the split of the history it read
CompressMemory ==
    /\ provider.pc = "idle"
    /\ \E maxMessages \in CompressLimits, llm \in {"nil", "model"},
          read \in {"ok", "error"} :
        LET messages == GetChatHistory(redis.key, provider.maxHistoryMessages)
            p1 == [provider EXCEPT !.maxMessages = maxMessages,
                                   !.messages = messages]
        IN  provider' =
                IF llm = "nil" \/ read = "error"
                THEN [p1 EXCEPT !.outcome = "error"]
                ELSE IF Len(messages) <= maxMessages
                        \/ oldMessages(messages, maxMessages) = <<>>
                THEN [p1 EXCEPT !.outcome = "unchanged"]
                ELSE [p1 EXCEPT !.pc = "summarise", !.outcome = "none"]
    /\ UNCHANGED <<isRunning, config, tools, toolsMap, memory, history, toolCache,
                   now, runs, pc, ex, chan, ret, obs, model, ctx, toolCacheSize, redis>>

\* llm.Chat with the summary prompt, then compressedMessages
CompressSummarise ==
    /\ provider.pc = "summarise"
    /\ \/ provider' = Returned("error")
       \/ \E summary \in Summaries :
            LET compressed == compressedMessages(provider.messages,
                                                 provider.maxMessages, summary)
            IN  provider' = [provider EXCEPT !.pc = "push",
                                             !.compressed = compressed,
                                             !.i = Len(compressed)]
    /\ UNCHANGED <<isRunning, config, tools, toolsMap, memory, history, toolCache,
                   now, runs, pc, ex, chan, ret, obs, model, ctx, toolCacheSize, redis>>

\* one round of the insert loop: LPush on the temporary key, or its failure
CompressPush ==
    /\ provider.pc = "push"
    /\ \E reply \in {"ok", "error"} :
        IF reply = "ok"
        THEN /\ redis' = [redis EXCEPT !.temp =
                             LPush(@, Marshal(provider.compressed[provider.i]))]
             /\ provider' = [provider EXCEPT !.i = @ - 1,
                                !.pc = IF provider.i = 1 THEN "verify" ELSE "push"]
        ELSE /\ redis' = [redis EXCEPT !.temp = <<>>]
             /\ provider' = Returned("error")
    /\ UNCHANGED <<isRunning, config, tools, toolsMap, memory, history, toolCache,
                   now, runs, pc, ex, chan, ret, obs, model, ctx, toolCacheSize>>

\* LLen of the temporary key against len(compressedMessages)
CompressVerify ==
    /\ provider.pc = "verify"
    /\ \E reply \in {"ok", "error"} :
        IF reply = "ok" /\ Len(redis.temp) = Len(provider.compressed)
        THEN /\ provider' = [provider EXCEPT !.pc = "rename"]
             /\ UNCHANGED redis
        ELSE /\ redis' = [redis EXCEPT !.temp = <<>>]
             /\ provider' = Returned("error")
    /\ UNCHANGED <<isRunning, config, tools, toolsMap, memory, history, toolCache,
                   now, runs, pc, ex, chan, ret, obs, model, ctx, toolCacheSize>>

\* RENAME tempKey key
CompressRename ==
    /\ provider.pc = "rename"
    /\ \E reply \in {"ok", "error"} :
        IF reply = "ok"
        THEN /\ redis' = [key |-> redis.temp, temp |-> <<>>]
             /\ provider' = [provider EXCEPT !.pc = "trim"]
        ELSE /\ redis' = [redis EXCEPT !.temp = <<>>]
             /\ provider' = Returned("error")
    /\ UNCHANGED <<isRunning, config, tools, toolsMap, memory, history, toolCache,
                   now, runs, pc, ex, chan, ret, obs, model, ctx, toolCacheSize>>

\* trimHistory after the swap, when a limit is set
CompressTrim ==
    /\ provider.pc = "trim"
    /\ IF provider.maxHistoryMessages > 0
       THEN \E reply \in {"ok", "error"} :
              IF reply = "ok"
              THEN /\ redis' = [redis EXCEPT !.key =
                                   trimHistory(@, provider.maxHistoryMessages)]
                   /\ provider' = Returned("ok")
              ELSE /\ provider' = Returned("error")
                   /\ UNCHANGED redis
       ELSE /\ provider' = Returned("ok")
            /\ UNCHANGED redis
    /\ UNCHANGED <<isRunning, config, tools, toolsMap, memory, history, toolCache,
                   now, runs, pc, ex, chan, ret, obs, model, ctx, toolCacheSize>>

NextRedis ==
    \/ AddMessage
    \/ SaveContextCall
    \/ SetMaxHistoryMessages
    \/ CompressMemory
    \/ CompressSummarise
    \/ CompressPush
    \/ CompressVerify
    \/ CompressRename
    \/ CompressTrim

SpecRedis == InitRedis /\ [][NextRedis]_vars

\* the most recent n messages of a history that are not system messages
RecentNonSystem(messages, n) ==
    LET others == SelectSeq(messages, IsNotSystem)
    IN  LastOf(others, IF n < Len(others) THEN n ELSE Len(others))

\* the compressed form of a history: its system messages, the summary, its
\* most recent maxMessages other messages
CompressedForms(messages, maxMessages) ==
    {systemMessages(messages) \o <<SummaryMessage(summary)>>
         \o RecentNonSystem(messages, maxMessages) : summary \in Summaries}

\* C25: after a CompressMemory that rewrote the history and returned nil,
\* get_chat_history returns the system messages, the summary message and the
\* most recent max_messages other messages, oldest first; a history of 3T
\* messages, none of them a system message, is at most T+1 long afterwards.
C25_CompressedHistory ==
    (provider.pc = "idle" /\ provider.outcome = "ok") =>
        /\ ChatHistory \in CompressedForms(provider.messages, provider.maxMessages)
        /\ (/\ Len(provider.messages) = 3 * provider.maxMessages
            /\ systemMessages(provider.messages) = <<>>)
                => Len(ChatHistory) <= provider.maxMessages + 1

\* C26 (state): while CompressMemory runs and after it returned, whatever it
\* returned, get_chat_history reads the history from before the call or its
\* compressed form.
C26_State ==
    (provider.pc # "idle" \/ provider.outcome # "none") =>
        \/ ChatHistory = provider.messages
        \/ ChatHistory \in CompressedForms(provider.messages, provider.maxMessages)

\* C26 (step): CompressMemory changes the list under the session's key only
\* once the temporary list was verified.
C26_Step ==
    (provider.pc # "idle" /\ redis'.key # redis.key) => provider.pc \in {"rename", "trim"}

\* C26: compression is atomic: a reader sees the complete history from before
\* the call or the complete compressed history, never an empty or partly
\* rewritten one, and the old entries go only after the new ones were verified.
C26_Atomic == [](C26_State) /\ [][C26_Step]_vars

\* ---------------------------------------------------------------------------
\* Memory compression after the save
\* ---------------------------------------------------------------------------

\* config.MemoryCompressThreshold: unset, below and above the history of one
\* saved execution
Thresholds == {0, 1, 3}

InitCompress ==
    /\ isRunning = FALSE
    /\ config \in [MaxIterations : 1..MaxIterBound,
                   EnableToolRetry : {FALSE},
                   SystemMessage : {"You are a calculator."},
                   MaxHistoryMessages : {0},
                   EnableMemoryCompress : BOOLEAN,
                   Timeout : {0},
                   MemoryCompressThreshold : Thresholds]
    /\ tools = <<ToolAdd, ToolBad>>
    /\ toolsMap = [n \in {"add", "bad"} |-> IF n = "add" THEN ToolAdd ELSE ToolBad]
    /\ memory = "bound"
    /\ history = <<>>
    /\ toolCache = <<>>
    /\ now = 0
    /\ runs = 0
    /\ pc = [p \in Procs |-> "idle"]
    /\ ex = [p \in Procs |-> ExIdle]
    /\ chan = [p \in Procs |-> ChanNone]
    /\ ret = [p \in Procs |-> RetNone]
    /\ obs = [p \in Procs |-> ObsNone]
    /\ model = AnyModel
    /\ ctx = "live"
    /\ toolCacheSize = DefaultCacheSize
    /\ redis = RedisEmpty
    /\ provider = NewProvider(DefaultMaxHistoryMessages)

NextCompress ==
    \/ Execute(1)
    \/ ExecuteStream(1)
    \/ Prepare(1)
    \/ ModelTurn(1)
    \/ StreamRecv(1)
    \/ StreamEnd(1)
    \/ ToolStep(1)
    \/ IterationEnd(1)
    \/ Finish(1)
    \/ Receive(1)
    \/ ObserveClosed(1)
    \/ Acknowledge(1)

SpecCompress == InitCompress /\ [][NextCompress]_vars

\* C23 (state): an execution whose SaveContext or CompressMemory returned an
\* error has ended with its result.
C23_State ==
    \A p \in Procs :
        (obs[p].saveErr \/ obs[p].compressErr) => Succeeded(p)

\* C23 (step): the step in which SaveContext or CompressMemory returns an
\* error hands out the result the loop left: Execute returns it with a nil
\* error, the stream appends the end event that carries it and closes.
C23_Step ==
    \A p \in Procs :
        (pc[p] = "finish" /\ (obs'[p].saveErr \/ obs'[p].compressErr)) =>
            IF ex[p].mode = "execute"
            THEN /\ pc'[p] = "returned"
                 /\ ret'[p] = RetResult(ex[p].finalResult)
            ELSE /\ chan'[p].closed
                 /\ chan'[p].events =
                        Append(chan[p].events,
                               EndEvent(AgentResult(ex[p].finalResult.output,
                                                    ex[p].accToolCalls,
                                                    ex[p].accSteps)))

\* C23: a failure of save_context or of memory compression never fails a
\* successful result: Execute still returns the result with a nil error and
\* ExecuteStream still ends with the end event carrying it.
C23_MemoryErrorsSwallowed == [](C23_State) /\ [][C23_Step]_vars

\* a stream whose compression failed after two model turns
C23_Witness ==
    \E p \in Procs :
        /\ obs[p].compressErr /\ obs[p].mode = "stream"
        /\ obs[p].modelCalls = 2
        /\ pc[p] = "draining" /\ LastEvent(p).type = "end"

\* C24 (state): an execution calls CompressMemory at most once, and only
\* after its SaveContext returned nil; one that ended in an error never did.
C24_State ==
    \A p \in Procs :
        /\ obs[p].compressions <= 1
        /\ obs[p].compressions > 0 => (obs[p].saves = 1 /\ ~obs[p].saveErr)
        /\ (obs[p].done /\ ~Succeeded(p) /\ ~obs[p].panicked)
                => obs[p].compressions = 0

\* C24 (step): CompressMemory is called only by an execution whose loop has
\* ended, with compression enabled, and with the history that the save left
\* longer than the threshold.
C24_Step ==
    \A p \in Procs :
        obs'[p].compressions > obs[p].compressions =>
            /\ pc[p] = "finish"
            /\ config.EnableMemoryCompress
            /\ obs'[p].saves = obs[p].saves + 1 /\ ~obs'[p].saveErr
            /\ Len(history) + 2 > config.MemoryCompressThreshold

\* C24: compression is invoked only after a save_context of the same
\* execution succeeded, only when enable_memory_compress is on and only when
\* the history read after the save exceeds memory_compress_threshold; never
\* after a failed save or a failed execution.
C24_CompressOnlyWhenDue == [](C24_State) /\ [][C24_Step]_vars

\* a second execution whose save took the history over the threshold 3 and
\* whose compression left the summary and three messages
C24_Witness ==
    \E p \in Procs :
        /\ obs[p].compressions = 1 /\ ~obs[p].compressErr /\ Succeeded(p)
        /\ config.MemoryCompressThreshold = 3
        /\ Len(history) = 4
        /\ \E i \in DOMAIN history : history[i].role = "system"

\* ---------------------------------------------------------------------------
\* The scheduler's output against its input batch
\* ---------------------------------------------------------------------------

\* C31: once the batch of a turn is worked off, every tool call of the batch
\* was handled exactly once: the execution order is a permutation of the batch.
C31_SchedulePermutation ==
    \A p \in Procs :
        BatchDone(p) =>
            /\ Len(obs[p].turnLog) = Len(obs[p].lastBatch)
            /\ \A i \in DOMAIN obs[p].lastBatch :
                  Cardinality({k \in DOMAIN obs[p].turnLog :
                                  obs[p].turnLog[k].call = obs[p].lastBatch[i]}) = 1

\* ---------------------------------------------------------------------------
\* Executions of three and more model turns
\* ---------------------------------------------------------------------------

\* one turn more than the other specifications allow
ManyTurns == MaxIterBound + 1

InitTurns ==
    /\ isRunning = FALSE
    /\ config = [MaxIterations |-> ManyTurns, EnableToolRetry |-> FALSE,
                 SystemMessage |-> "You are a calculator.", MaxHistoryMessages |-> 0,
                 EnableMemoryCompress |-> FALSE, Timeout |-> 0,
                 MemoryCompressThreshold |-> 0]
    /\ tools = <<ToolAdd, ToolBad>>
    /\ toolsMap = [n \in {"add", "bad"} |-> IF n = "add" THEN ToolAdd ELSE ToolBad]
    /\ memory = "nil"
    /\ history = <<>>
    /\ toolCache = <<>>
    /\ now = 0
    /\ runs = 0
    /\ pc = [p \in Procs |-> "idle"]
    /\ ex = [p \in Procs |-> ExIdle]
    /\ chan = [p \in Procs |-> ChanNone]
    /\ ret = [p \in Procs |-> RetNone]
    /\ obs = [p \in Procs |-> ObsNone]
    /\ model = [t \in 1..ManyTurns |-> ModelResponses]
    /\ ctx = "live"
    /\ toolCacheSize = DefaultCacheSize
    /\ redis = RedisEmpty
    /\ provider = NewProvider(DefaultMaxHistoryMessages)

NextTurns ==
    \/ Execute(1)
    \/ ExecuteStream(1)
    \/ Prepare(1)
    \/ ModelTurn(1)
    \/ StreamRecv(1)
    \/ StreamEnd(1)
    \/ ToolStep(1)
    \/ IterationEnd(1)
    \/ Finish(1)
    \/ Receive(1)
    \/ ObserveClosed(1)
    \/ Acknowledge(1)

SpecTurns == InitTurns /\ [][NextTurns]_vars

\* C32: the messages about to be passed to the model hold, in every turn, the
\* user message that carries the caller's input.
C32_InputInEveryTurn ==
    \A p \in Procs :
        pc[p] = "model" =>
            \E i \in DOMAIN ex[p].messages :
                ex[p].messages[i] = Message("user", ex[p].input, <<>>)

\* ---------------------------------------------------------------------------
\* The initial message list: system message, history, prior steps, input
\* ---------------------------------------------------------------------------

\* the previousRequests of a caller that ran add(2, 3) before
PriorRequests == {<<ToolCallData(CallAdd("c0"), "5")>>}

\* config.MaxHistoryMessages: unset, and below the history of one and of two
\* saved executions
HistoryLimits == {0, 1, 3}

InitPrepare ==
    /\ isRunning = FALSE
    /\ config \in [MaxIterations : {MaxIterBound},
                   EnableToolRetry : {FALSE},
                   SystemMessage : {"", "You are a calculator."},
                   MaxHistoryMessages : HistoryLimits,
                   EnableMemoryCompress : {FALSE},
                   Timeout : {0},
                   MemoryCompressThreshold : {0}]
    /\ tools = <<ToolAdd, ToolBad>>
    /\ toolsMap = [n \in {"add", "bad"} |-> IF n = "add" THEN ToolAdd ELSE ToolBad]
    /\ memory = "bound"
    /\ history = <<>>
    /\ toolCache = <<>>
    /\ now = 0
    /\ runs = 0
    /\ pc = [p \in Procs |-> "idle"]
    /\ ex = [p \in Procs |-> ExIdle]
    /\ chan = [p \in Procs |-> ChanNone]
    /\ ret = [p \in Procs |-> RetNone]
    /\ obs = [p \in Procs |-> ObsNone]
    /\ model = AnyModel
    /\ ctx = "live"
    /\ toolCacheSize = DefaultCacheSize
    /\ redis = RedisEmpty
    /\ provider = NewProvider(DefaultMaxHistoryMessages)

\* Execute with the steps of an earlier run as previousRequests
ExecuteWithContext(p) == Invoke(p, PriorRequests)

NextPrepare ==
    \/ Execute(1)
    \/ ExecuteWithContext(1)
    \/ ExecuteStream(1)
    \/ Prepare(1)
    \/ ModelTurn(1)
    \/ StreamRecv(1)
    \/ StreamEnd(1)
    \/ ToolStep(1)
    \/ IterationEnd(1)
    \/ Finish(1)
    \/ Receive(1)
    \/ ObserveClosed(1)
    \/ Acknowledge(1)

SpecPrepare == InitPrepare /\ [][NextPrepare]_vars

\* how many entries of the history the first turn's messages hold
KeptOf(n) ==
    IF config.MaxHistoryMessages > 0 /\ n > config.MaxHistoryMessages
    THEN config.MaxHistoryMessages ELSE n

\* C35: before the first model turn the messages are, in this order: the
\* configured system message if one is set, the most recent
\* max_history_messages entries of the stored history in their stored order,
\* one system message for the prior steps if there are any, and last the user
\* message with the input.
C35_InitialMessages ==
    \A p \in Procs :
        (pc[p] = "model" /\ ex[p].iteration = 0) =>
            LET m    == ex[p].messages
                s    == IF config.SystemMessage # "" THEN 1 ELSE 0
                k    == KeptOf(Len(history))
                c    == IF ex[p].prev # <<>> THEN 1 ELSE 0
            IN  /\ Len(m) = s + k + c + 1
                /\ s = 1 => m[1] = Message("system", config.SystemMessage, <<>>)
                /\ \A i \in 1..k : m[s + i] = history[Len(history) - k + i]
                /\ c = 1 => /\ m[s + k + 1].role = "system"
                            /\ m[s + k + 1].content =
                                 "Previous tool calls:\nTool: add, Input: map[a:2 b:3], Result: 5\n"
                /\ m[Len(m)] = Message("user", ex[p].input, <<>>)

\* a second execution with prior steps, a system message, and a history of
\* two messages of which the limit 1 keeps the assistant's
C35_Witness ==
    \E p \in Procs :
        /\ pc[p] = "model" /\ ex[p].iteration = 0
        /\ ex[p].prev # <<>>
        /\ config.SystemMessage # "" /\ config.MaxHistoryMessages = 1
        /\ Len(history) = 2
        /\ Len(ex[p].messages) = 4
        /\ ex[p].messages[2] = history[2]

\* ------------------------------------------------- the keys of the tool cache
\* An engine with the tools add and t1 and the cache enabled; in the first turn
\* the provider asks for one or two calls of either tool with one of the argument
\* maps, in the second for one more call or none, and answers in the third; one caller uses Execute or ExecuteStream, MaxRuns
\* times, so that later calls meet the entries of earlier ones.
KeyArgs ==
    { {<<"a", 2>>, <<"b", 3>>}, {<<"a", 3>>, <<"b", 3>>}, {<<"a", 2>>, <<"b", 2>>} }

KeyTools == {"add", "t1"}

KeyCalls == {ToolCall("c1", n, a) : n \in KeyTools, a \in KeyArgs}

\* a batch of one call, or of two
KeyBatches == {<<tc>> : tc \in KeyCalls} \cup {<<t1, t2>> : t1 \in KeyCalls, t2 \in KeyCalls}

KeyModel ==
    << {Response("", <<>>, b) : b \in KeyBatches},
       {Response("", <<>>, <<tc>>) : tc \in KeyCalls}
           \cup {Response("done", <<"done">>, <<>>)},
       {Response("done", <<"done">>, <<>>)} >>

InitKey ==
    /\ isRunning = FALSE
    /\ config = [MaxIterations |-> Len(KeyModel), EnableToolRetry |-> TRUE,
                 SystemMessage |-> "", MaxHistoryMessages |-> 0,
                 EnableMemoryCompress |-> FALSE, Timeout |-> 0,
                 MemoryCompressThreshold |-> 0]
    /\ tools = <<ToolAdd, CacheTool("t1")>>
    /\ toolsMap = [n \in KeyTools |-> IF n = "add" THEN ToolAdd ELSE CacheTool(n)]
    /\ memory = "nil"
    /\ history = <<>>
    /\ toolCache = <<>>
    /\ now = 0
    /\ runs = 0
    /\ pc = [p \in Procs |-> "idle"]
    /\ ex = [p \in Procs |-> ExIdle]
    /\ chan = [p \in Procs |-> ChanNone]
    /\ ret = [p \in Procs |-> RetNone]
    /\ obs = [p \in Procs |-> ObsNone]
    /\ model = KeyModel
    /\ ctx = "live"
    /\ toolCacheSize = DefaultCacheSize
    /\ redis = RedisEmpty
    /\ provider = NewProvider(DefaultMaxHistoryMessages)

NextKey ==
    \/ Execute(1)
    \/ ExecuteStream(1)
    \/ Prepare(1)
    \/ ModelTurn(1)
    \/ StreamRecv(1)
    \/ StreamEnd(1)
    \/ ToolStep(1)
    \/ IterationEnd(1)
    \/ Finish(1)
    \/ Receive(1)
    \/ ObserveClosed(1)
    \/ Acknowledge(1)

SpecKey == InitKey /\ [][NextKey]_vars

\* the calls whose key is k
CallsOfKey(k) ==
    {tc \in KeyCalls : generateToolCacheKey(tc.name, tc.args) = k}

\* the call p is about to look up in the cache
NextCall(p) == Head(ex[p].pending)

AboutToLookUp(p) ==
    pc[p] = "tools" /\ ex[p].pending # <<>> /\ NextCall(p).name \in DOMAIN toolsMap

EvictMaxNow == CacheExpirationTime + 2

StoreResult(n) ==
    /\ now < EvictMaxNow
    /\ ~getCachedToolResult(config.EnableToolRetry, toolCache, now, n, ArgsNone).cached
    /\ toolCache' \in setCachedToolResult(config.EnableToolRetry, toolCache,
                                          toolCacheSize, now, n, ArgsNone,
                                          ToolExecute(toolsMap[n], ArgsNone).result, "")
    /\ now' = now + 1
    /\ UNCHANGED <<isRunning, config, tools, toolsMap, memory, history, runs, pc, ex,
                   chan, ret, obs, model, ctx, toolCacheSize, redis, provider>>

Elapse ==
    /\ now < EvictMaxNow
    /\ DOMAIN toolCache # {}
    /\ now' = now + 1
    /\ UNCHANGED <<isRunning, config, tools, toolsMap, memory, history, toolCache,
                   runs, pc, ex, chan, ret, obs, model, ctx, toolCacheSize, redis, provider>>

NextEvict ==
    \/ \E n \in CacheToolNames : StoreResult(n)
    \/ Elapse

SpecEvict == InitCache /\ [][NextEvict]_vars

\* the entries that have expired at the time of the insert
Expired == {k \in DOMAIN toolCache : now - toolCache[k].timestamp >= CacheExpirationTime}

\* the entries the insert took out and did not write
Removed == {k \in DOMAIN toolCache : k \notin DOMAIN toolCache'}

\* the entry the insert wrote
Written == {k \in DOMAIN toolCache' : toolCache'[k].timestamp = now}

\* C34: an insert into a full cache removes expired entries first, at most a
\* quarter of the entries; it evicts a fresh entry only if no entry had expired,
\* and then exactly one, the entry with the smallest timestamp of all; every
\* other entry stays as it was. So the insert after cache_size distinct fresh
\* ones takes out the first of them and keeps the others.
C34_Step ==
    (toolCache' # toolCache /\ Cardinality(DOMAIN toolCache) >= toolCacheSize) =>
        /\ Expired # {} =>
              /\ Removed \subseteq Expired
              /\ Cardinality(Removed) <= Cardinality(DOMAIN toolCache) \div 4
              /\ \E k \in Expired : k \in Removed \cup Written
        /\ Expired = {} =>
              \E k \in DOMAIN toolCache :
                  /\ Removed = {k}
                  /\ \A j \in DOMAIN toolCache \ {k} :
                        toolCache[k].timestamp < toolCache[j].timestamp
        /\ \A k \in DOMAIN toolCache \ (Removed \cup Written) :
              toolCache'[k] = toolCache[k]
        /\ Cardinality(Written) = 1

C34_EvictExpiredThenOldest == [][C34_Step]_vars

\* t1 .. t(cache_size + 1) were stored in this order, all fresh: t1 is gone and
\* the others are in the cache
C34_Witness ==
    /\ now = toolCacheSize + 1
    /\ DOMAIN toolCache = CacheToolNames \ {"t1"}
    /\ \A i \in 2..(toolCacheSize + 1) :
          toolCache["t" \o ToString(i)].timestamp = i - 1

\* ------------------------------------------------- Stop beside two callers
\* The engine of Init without a memory provider and without the cache, with
\* both callers and with Stop() callable at any moment.
InitGate ==
    /\ Init
    /\ config.MaxIterations = MaxIterBound
    /\ ~config.EnableToolRetry
    /\ memory = "nil"

NextGate ==
    \/ \E p \in Procs : Execute(p)
    \/ \E p \in Procs : ExecuteStream(p)
    \/ \E p \in Procs : Prepare(p)
    \/ \E p \in Procs : ModelTurn(p)
    \/ \E p \in Procs : StreamRecv(p)
    \/ \E p \in Procs : StreamEnd(p)
    \/ \E p \in Procs : ToolStep(p)
    \/ \E p \in Procs : IterationEnd(p)
    \/ \E p \in Procs : Finish(p)
    \/ \E p \in Procs : Receive(p)
    \/ \E p \in Procs : ObserveClosed(p)
    \/ \E p \in Procs : Acknowledge(p)
    \/ Stop

SpecGate == InitGate /\ [][NextGate]_vars

C36_State == Cardinality({p \in Procs : InFlight(p)}) <= 1

C36_Step ==
    (isRunning /\ ~isRunning') => \E p \in Procs : InFlight(p) /\ ~InFlight(p)'

\* C36: with Stop() callable at any moment, at most one execution is in flight
\* and the gate is cleared only in the step that ends the execution holding it.
C36_StopKeepsGate == [](C36_State) /\ [][C36_Step]_vars

\* the tool of the call returns an error
FailingCall(tc) ==
    tc.name \in DOMAIN toolsMap /\ ToolExecute(toolsMap[tc.name], tc.args).err # ""

FailedEntries(p) ==
    {i \in DOMAIN obs[p].turnLog : obs[p].turnLog[i].kind = "failed"}

C37_State ==
    /\ \A k \in DOMAIN toolCache : toolCache[k].err = ""
    /\ \A p \in Procs : \A i \in DOMAIN obs[p].turnLog :
          FailingCall(obs[p].turnLog[i].call) => obs[p].turnLog[i].kind = "failed"

C37_Step ==
    \A p \in Procs :
        (pc[p] = "tools" /\ ex[p].pending # <<>> /\ FailingCall(Head(ex[p].pending))
            /\ ex'[p] # ex[p])
          => toolCache' = toolCache

\* C37: only successful tool results are written to the cache: no entry carries
\* an error, handling a call whose tool returns an error leaves the cache as it
\* was, and every such call runs its tool again instead of being answered from
\* the cache.
C37_ErrorsNotCached == [](C37_State) /\ [][C37_Step]_vars

\* An engine with the cache enabled whose provider may ask for tools in each
\* of ManyTurns - 1 turns, so that a failing call can come back; one caller.
InitFail ==
    /\ isRunning = FALSE
    /\ config = [MaxIterations |-> ManyTurns, EnableToolRetry |-> TRUE,
                 SystemMessage |-> "You are a calculator.", MaxHistoryMessages |-> 0,
                 EnableMemoryCompress |-> FALSE, Timeout |-> 0,
                 MemoryCompressThreshold |-> 0]
    /\ tools = <<ToolAdd, ToolBad>>
    /\ toolsMap = [n \in {"add", "bad"} |-> IF n = "add" THEN ToolAdd ELSE ToolBad]
    /\ memory = "nil"
    /\ history = <<>>
    /\ toolCache = <<>>
    /\ now = 0
    /\ runs = 0
    /\ pc = [p \in Procs |-> "idle"]
    /\ ex = [p \in Procs |-> ExIdle]
    /\ chan = [p \in Procs |-> ChanNone]
    /\ ret = [p \in Procs |-> RetNone]
    /\ obs = [p \in Procs |-> ObsNone]
    /\ model = [t \in 1..ManyTurns |-> ModelResponses]
    /\ ctx = "live"
    /\ toolCacheSize = DefaultCacheSize
    /\ redis = RedisEmpty
    /\ provider = NewProvider(DefaultMaxHistoryMessages)

SpecFail == InitFail /\ [][NextTurns]_vars

\* the call that failed in the first turn comes back in the second, with the
\* result of add in the cache, and its tool has been run again
C37_Witness ==
    \E p \in Procs :
        /\ DOMAIN toolCache # {}
        /\ FailedEntries(p) # {}
        /\ \A i \in FailedEntries(p) : obs[p].turnLog[i].retry /\ obs[p].turnLog[i].turn = 1
        /\ \E i \in DOMAIN ex[p].finalResult.intermediateSteps :
              ex[p].finalResult.intermediateSteps[i].observation = FailedObservation("boom")

\* the "Previous conversation summary" messages of a history
SummariesIn(h) == {i \in DOMAIN h : \E t \in Summaries : h[i] = SummaryMessage(t)}

C38_Step ==
    \A p \in Procs :
        (obs'[p].compressions > obs[p].compressions /\ ~obs'[p].compressErr
            /\ ~obs'[p].panicked) =>
            /\ Cardinality(SummariesIn(history')) <= 1
            /\ Len(history') <= config.MemoryCompressThreshold + 1

\* C38: the history a successful compression leaves holds at most one
\* "Previous conversation summary" message and at most threshold + 1 messages,
\* in every execution of a sequence that started with an empty history.
C38_SummaryBounded == [][C38_Step]_vars

\* ------------------------------------------------ the MongoDB provider alone
\* A MongoDBMemoryProvider built with NewMongoDBMemoryProviderWithLimit(max),
\* max in Limits, to which up to MaxAppended messages are appended one at a
\* time or as the two messages of a SaveContext; every insert reads a later
\* time.Now() than the one before.
InitMongo ==
    /\ isRunning = FALSE
    /\ config = [MaxIterations |-> 2, EnableToolRetry |-> FALSE,
                 SystemMessage |-> "", MaxHistoryMessages |-> 0,
                 EnableMemoryCompress |-> FALSE, Timeout |-> 0, MemoryCompressThreshold |-> 0]
    /\ tools = <<ToolAdd, ToolBad>>
    /\ toolsMap = [n \in {"add", "bad"} |-> IF n = "add" THEN ToolAdd ELSE ToolBad]
    /\ memory = "mongodb"
    /\ history = <<>>
    /\ toolCache = <<>>
    /\ now = 0
    /\ runs = 0
    /\ pc = [p \in Procs |-> "idle"]
    /\ ex = [p \in Procs |-> ExIdle]
    /\ chan = [p \in Procs |-> ChanNone]
    /\ ret = [p \in Procs |-> RetNone]
    /\ obs = [p \in Procs |-> ObsNone]
    /\ model = [t \in 1..MaxIterBound |-> ModelResponses]
    /\ ctx = "live"
    /\ toolCacheSize = DefaultCacheSize
    /\ redis = RedisEmpty
    /\ provider \in {NewProvider(max) : max \in Limits}

\* the provider's AddMessage
MongoAdd ==
    /\ Len(provider.appended) < MaxAppended
    /\ \E role \in Roles :
        LET msg == Message(role, Contents[Len(provider.appended) + 1], <<>>)
        IN  provider' = [provider EXCEPT
                            !.appended = Append(@, msg),
                            !.collection = MongoAddMessage(@, provider.maxHistoryMessages,
                                                           msg, now)]
    /\ now' = now + 1
    /\ UNCHANGED <<isRunning, config, tools, toolsMap, memory, history, toolCache, runs,
                   pc, ex, chan, ret, obs, model, ctx, toolCacheSize, redis>>

\* the provider's SaveContext: AddMessage of the input, then of the output
MongoSave ==
    /\ Len(provider.appended) + 2 <= MaxAppended
    /\ LET inp == Message("user", Contents[Len(provider.appended) + 1], <<>>)
           out == Message("assistant", Contents[Len(provider.appended) + 2], <<>>)
           max == provider.maxHistoryMessages
       IN  provider' = [provider EXCEPT
                           !.appended = @ \o <<inp, out>>,
                           !.collection = MongoAddMessage(
                                              MongoAddMessage(@, max, inp, now),
                                              max, out, now + 1)]
    /\ now' = now + 2
    /\ UNCHANGED <<isRunning, config, tools, toolsMap, memory, history, toolCache, runs,
                   pc, ex, chan, ret, obs, model, ctx, toolCacheSize, redis>>

NextMongo ==
    \/ MongoAdd
    \/ MongoSave

SpecMongo == InitMongo /\ [][NextMongo]_vars

\* C39: once more than maxHistoryMessages = N messages were appended, the
\* collection holds exactly N documents, those of the N messages appended
\* last, and GetChatHistory returns these N messages, oldest first.
C39_MongoKeepsNewest ==
    LET n == provider.maxHistoryMessages
        a == provider.appended
    IN  Len(a) > n =>
            /\ Cardinality(provider.collection) = n
            /\ MongoGetChatHistory(provider.collection, n) = SubSeq(a, Len(a) - n + 1, Len(a))

\* ---------------------------------------------------------------------------
\* LangChainLLMProvider: rate-limit retries
\* ---------------------------------------------------------------------------

\* maxRetries := 3 in Chat, ChatStream, ChatWithTools and ChatWithToolsStream
MaxRetries == 3

\* waitTime = 5000 when the error names no delay
DefaultWaitTime == 5000

\* strings.Contains(s, sub)
Contains(s, sub) ==
    \E i \in 1..(Len(s) - Len(sub) + 1) : SubSeq(s, i, i + Len(sub) - 1) = sub

Digits == "0123456789"

IsDigit(c) == \E d \in 1..Len(Digits) : SubSeq(Digits, d, d) = c

DigitValue(c) == (CHOOSE d \in 1..Len(Digits) : SubSeq(Digits, d, d) = c) - 1

\* strconv.Atoi of a string of digits
RECURSIVE Atoi(_)
Atoi(s) ==
    IF Len(s) = 0 THEN 0
    ELSE 10 * Atoi(SubSeq(s, 1, Len(s) - 1)) + DigitValue(SubSeq(s, Len(s), Len(s)))

RetryAfterPrefix == "Please retry after "
RetryAfterSuffix == " milliseconds"

\* the matches of `Please retry after (\d+) milliseconds` in s, as pairs of the
\* first and the last position of the digits
RetryAfterMatches(s) ==
    {<<i, j>> \in (1..Len(s)) \X (1..Len(s)) :
        /\ i <= j
        /\ i > Len(RetryAfterPrefix)
        /\ SubSeq(s, i - Len(RetryAfterPrefix), i - 1) = RetryAfterPrefix
        /\ \A k \in i..j : IsDigit(SubSeq(s, k, k))
        /\ SubSeq(s, j + 1, j + Len(RetryAfterSuffix)) = RetryAfterSuffix}

\* the wait handle429Retry takes from the error text
waitTimeOf(errMsg) ==
    LET matches == RetryAfterMatches(errMsg)
    IN  IF matches = {} THEN DefaultWaitTime
        ELSE LET m == CHOOSE x \in matches : \A y \in matches : x[1] <= y[1]
             IN  Atoi(SubSeq(errMsg, m[1], m[2]))

\* a handle429Retry that retries whatever the error says
handle429RetryAny(err, retryCount, maxRetries) ==
    IF retryCount >= maxRetries THEN [shouldRetry |-> FALSE, waitTime |-> 0]
    ELSE [shouldRetry |-> TRUE, waitTime |-> waitTimeOf(err)]

\* LangChainLLMProvider.handle429Retry (it returns after sleeping waitTime)
handle429Retry(err, retryCount, maxRetries) ==
    IF retryCount >= maxRetries THEN [shouldRetry |-> FALSE, waitTime |-> 0]
    ELSE IF ~Contains(err, "429") THEN [shouldRetry |-> FALSE, waitTime |-> 0]
    ELSE [shouldRetry |-> TRUE, waitTime |-> waitTimeOf(err)]

\* what model.GenerateContent may return: a response with a choice (with or
\* without tool calls), a response without choices, or an error
LLMErrors ==
    { "429 Too Many Requests. Please retry after 20 milliseconds",
      "API returned unexpected status code: 429",
      "connection reset by peer" }

Generated ==
    { [err |-> "", choices |-> 1, toolCalls |-> TRUE],
      [err |-> "", choices |-> 1, toolCalls |-> FALSE],
      [err |-> "", choices |-> 0, toolCalls |-> FALSE] }
    \cup {[err |-> e, choices |-> 0, toolCalls |-> FALSE] : e \in LLMErrors}

ChatModes == {"Chat", "ChatWithTools"}
StreamModes == {"ChatStream", "ChatWithToolsStream"}

\* errors.EC_LLM_NO_RESPONSE
NoResponse == "LLM_NO_RESPONSE"

\* no call is running. mode: the method called; retryCount: its local;
\* generated: what each GenerateContent of the call returned; waited: the
\* sleeps taken; out, closed: outputChan; result: what Chat or ChatWithTools
\* returned
LLMIdle ==
    [pc |-> "idle", mode |-> "", retryCount |-> 0, generated |-> <<>>,
     waited |-> <<>>, out |-> <<>>, closed |-> FALSE,
     result |-> [kind |-> "none", err |-> ""]]

StreamOut(type, content) == [type |-> type, content |-> content]

InitRetry ==
    /\ isRunning = FALSE
    /\ config = [MaxIterations |-> 2, EnableToolRetry |-> FALSE,
                 SystemMessage |-> "", MaxHistoryMessages |-> 0,
                 EnableMemoryCompress |-> FALSE, Timeout |-> 0, MemoryCompressThreshold |-> 0]
    /\ tools = <<ToolAdd, ToolBad>>
    /\ toolsMap = [n \in {"add", "bad"} |-> IF n = "add" THEN ToolAdd ELSE ToolBad]
    /\ memory = "nil"
    /\ history = <<>>
    /\ toolCache = <<>>
    /\ now = 0
    /\ runs = 0
    /\ pc = [p \in Procs |-> "idle"]
    /\ ex = [p \in Procs |-> ExIdle]
    /\ chan = [p \in Procs |-> ChanNone]
    /\ ret = [p \in Procs |-> RetNone]
    /\ obs = [p \in Procs |-> ObsNone]
    /\ model = LLMIdle
    /\ ctx = "live"
    /\ toolCacheSize = DefaultCacheSize
    /\ redis = RedisEmpty
    /\ provider = NewProvider(DefaultMaxHistoryMessages)

LLMUnchanged ==
    UNCHANGED <<isRunning, config, tools, toolsMap, memory, history, toolCache, now,
                runs, pc, ex, chan, ret, obs, ctx, toolCacheSize, redis, provider>>

\* Chat, ChatStream, ChatWithTools or ChatWithToolsStream is called; the
\* streaming methods make outputChan and start their goroutine
LLMCall(mode) ==
    /\ model.pc = "idle"
    /\ model' = [LLMIdle EXCEPT !.pc = "loop", !.mode = mode]
    /\ LLMUnchanged

\* one pass of the loop of Chat / ChatWithTools
ChatAttempt ==
    /\ model.pc = "loop"
    /\ model.mode \in ChatModes
    /\ \E g \in Generated :
        LET m == [model EXCEPT !.generated = Append(@, g)]
            r == handle429Retry(g.err, model.retryCount, MaxRetries)
        IN  model' =
                IF g.err # ""
                THEN IF r.shouldRetry
                     THEN [m EXCEPT !.retryCount = @ + 1,
                                    !.waited = Append(@, r.waitTime)]
                     ELSE [m EXCEPT !.pc = "done",
                                    !.result = [kind |-> "error", err |-> g.err]]
                ELSE IF g.choices > 0
                     THEN [m EXCEPT !.pc = "done",
                                    !.result = [kind |-> "message", err |-> ""]]
                     ELSE [m EXCEPT !.pc = "done",
                                    !.result = [kind |-> "error", err |-> NoResponse]]
    /\ LLMUnchanged

\* one pass of the loop of the goroutine of ChatStream / ChatWithToolsStream,
\* from the loop condition on; the deferred close runs when the goroutine ends
StreamAttempt ==
    /\ model.pc = "loop"
    /\ model.mode \in StreamModes
    /\ IF ~(model.retryCount <= MaxRetries)
       THEN model' = [model EXCEPT !.pc = "done", !.closed = TRUE]
       ELSE \E g \in Generated, chunks \in {<<>>, <<StreamOut("chunk", "Hi")>>} :
            LET announced == IF model.retryCount > 0
                             THEN <<StreamOut("retry", "")>> ELSE <<>>
                m == [model EXCEPT !.generated = Append(@, g),
                                   !.out = @ \o announced \o chunks]
                r == handle429Retry(g.err, model.retryCount, MaxRetries)
            IN  model' =
                    IF g.err # ""
                    THEN IF r.shouldRetry
                         THEN [m EXCEPT !.retryCount = @ + 1,
                                        !.waited = Append(@, r.waitTime),
                                        !.out = Append(@, StreamOut("info", ""))]
                         ELSE [m EXCEPT !.pc = "done", !.closed = TRUE,
                                        !.out = Append(@, StreamOut("error", g.err))]
                    ELSE [m EXCEPT !.pc = "done", !.closed = TRUE,
                                   !.out = @ \o
                                       (IF model.mode = "ChatWithToolsStream" /\ g.toolCalls
                                        THEN <<StreamOut("tool_calls", "")>> ELSE <<>>)
                                       \o <<StreamOut("end", "")>>]
    /\ LLMUnchanged

\* the caller has taken the result, or drained the closed channel
LLMTaken ==
    /\ model.pc = "done"
    /\ model' = LLMIdle
    /\ LLMUnchanged

NextRetry ==
    \/ \E mode \in ChatModes \cup StreamModes : LLMCall(mode)
    \/ ChatAttempt
    \/ StreamAttempt
    \/ LLMTaken

SpecRetry == InitRetry /\ [][NextRetry]_vars

\* the terminal messages on outputChan
Terminal == {i \in DOMAIN model.out : model.out[i].type \in {"end", "error"}}

\* C40: Chat and ChatWithTools call the model at most MaxRetries + 1 = 4 times;
\* every attempt but the last ended in an error whose text contains "429", so
\* no other error is retried; after the fourth failure the error returned is
\* the last one; a streaming call's channel is closed with exactly one end or
\* error message, which is its last message, and carries none before.
C40_RetryBounded ==
    LET g == model.generated
    IN  /\ Len(g) <= MaxRetries + 1
        /\ model.retryCount <= MaxRetries
        /\ \A i \in 1..(Len(g) - 1) : g[i].err # "" /\ Contains(g[i].err, "429")
        /\ Len(model.waited) = model.retryCount
        /\ (model.pc = "loop") => (\A i \in DOMAIN g : Contains(g[i].err, "429"))
        /\ (model.pc = "done" /\ model.mode \in ChatModes) =>
              /\ g[Len(g)].err # "" => model.result = [kind |-> "error", err |-> g[Len(g)].err]
              /\ (g[Len(g)].err # "" /\ Contains(g[Len(g)].err, "429")) => Len(g) = MaxRetries + 1
        /\ (model.mode \in StreamModes) =>
              /\ model.closed <=> model.pc = "done"
              /\ model.closed => Terminal = {Len(model.out)}
              /\ ~model.closed => Terminal = {}

\* ChatWithTools met four rate-limit errors, the last of them without a delay,
\* and returned the last
C40_Witness ==
    /\ model.mode = "ChatWithTools"
    /\ model.pc = "done"
    /\ Len(model.generated) = MaxRetries + 1
    /\ model.waited = <<20, 20, DefaultWaitTime>>
    /\ model.result = [kind |-> "error", err |-> "API returned unexpected status code: 429"]


====
